---- MODULE Spec2Model ----
(***************************************************************************)
(* Folonet: XDP datapath (folonet-ebpf), shared BPF maps, and the          *)
(* userspace control tier (folonet): packet-event dispatch, per-service    *)
(* workers, per-flow TCP state machines, cold start and idle monitoring.   *)
(***************************************************************************)
EXTENDS Integers, Sequences, FiniteSets, TLC

(***************************************************************************)
(* Bounds of the model.                                                    *)
(***************************************************************************)
\* entries the SERVICE_PORTS queue holds (PORTS_QUEUE_SIZE, scaled down)
PORTS_QUEUE_SIZE == 2
\* max_entries of the CONNECTION hash map (scaled down)
CONNECTION_MAX_ENTRIES == 3
\* records a ring buffer (PACKET_EVENT, COLD_START_MAP) holds (scaled down)
RING_SIZE == 1
\* MsgWorker::CHANNEL_SIZE (scaled down)
CHANNEL_SIZE == 1
\* cold-start sessions alive at the same time
MAX_SESSIONS == 2
\* per-service workers alive at the same time
MAX_WORKERS == 2
\* per-flow state machine tasks alive at the same time in one worker
MAX_FSMS == 2
\* frames the interface receives in one run
MAX_FRAMES == 4
\* records the event decoder is handed in one run
MAX_RECORDS == 2
\* entries the HashMap keyed by Connection holds
MAX_MAP_ENTRIES == 2
\* frames the stack of a task holds before it overflows
MAX_STACK == 3
\* Close messages one flow's state machine emits in one run
MAX_CLOSES == 2
\* entries the IP-to-MAC table holds (IP_MAC_MAP: 1024)
IP_MAC_MAX_ENTRIES == 3

(***************************************************************************)
(* Program constants.                                                      *)
(***************************************************************************)
FIRST_SERVICE_PORT == 10000
COLD_START_PORT_LOW == 8000
COLD_START_PORT_HIGH == 9999

(***************************************************************************)
(* Byte order.  The eBPF target is little endian (bpfel), so to_be and     *)
(* from_be are both the byte swap.                                         *)
(***************************************************************************)
ToBe16(x) == (x % 256) * 256 + (x \div 256)

ToBe32(x) ==
    (x % 256) * 16777216 + ((x \div 256) % 256) * 65536
        + ((x \div 65536) % 256) * 256 + (x \div 16777216)

Ipv4(a, b, c, d) == a * 16777216 + b * 65536 + c * 256 + d

(***************************************************************************)
(* Maps.                                                                   *)
(***************************************************************************)
EmptyMap == [x \in {} |-> x]

Has(m, k) == k \in DOMAIN m

Put(m, k, v) == [x \in (DOMAIN m) \cup {k} |-> IF x = k THEN v ELSE m[x]]

Del(m, k) == [x \in (DOMAIN m) \ {k} |-> m[x]]

\* bpf_map_update_elem with flags 0 (BPF_ANY) on a hash map: an existing key
\* is overwritten, a new key needs a free slot.
BpfCanInsert(m, k, max) == Has(m, k) \/ Cardinality(DOMAIN m) < max

(***************************************************************************)
(* Endpoints and connections.  A KEndpoint carries ip and port in network  *)
(* byte order, an Endpoint (userspace) in host byte order.                 *)
(***************************************************************************)
KEndpointNew(ip, port) == [ip |-> ip, port |-> port]

KConnectionNew(from, to) == [from |-> from, to |-> to]

reverse(way) == [from |-> way.to, to |-> way.from]

\* Endpoint::to_k_endpoint
to_k_endpoint(e) == KEndpointNew(ToBe32(e.ip), ToBe16(e.port))

\* Endpoint::new(KEndpoint)
EndpointNew(k) == [ip |-> ToBe32(k.ip), port |-> ToBe16(k.port)]

EndpointOf(ip, port) == [ip |-> ip, port |-> port]

\* UConnection::new(from, to)
UConnectionNew(from, to) == KConnectionNew(to_k_endpoint(from), to_k_endpoint(to))

(***************************************************************************)
(* The deployment the model runs: one client, one virtual service in the   *)
(* cold-start port band, its backend, and the local address of interface 1.*)
(* Interface 2 has no local address configured.                            *)
(***************************************************************************)
CLIENT == EndpointOf(Ipv4(10, 0, 0, 1), 40000)
CLIENT2 == EndpointOf(Ipv4(10, 0, 0, 3), 40001)
VSERVICE == EndpointOf(Ipv4(10, 0, 0, 100), 8080)
BACKEND == EndpointOf(Ipv4(10, 0, 0, 20), 80)
LOCAL_IP == Ipv4(10, 0, 0, 2)
IFINDEX == 1
IFINDEX_NO_IP == 2

\* ports the controller pushes at start: 10000 .. 10000 + PORTS_QUEUE_SIZE - 1
ServicePorts == FIRST_SERVICE_PORT .. (FIRST_SERVICE_PORT + PORTS_QUEUE_SIZE - 1)

LocalEndpoint(p) == EndpointOf(LOCAL_IP, p)

\* the external server manager: start_server(e) answers active with a server
\* endpoint for the endpoints it can provision, inactive for all others
Provisioned == [e \in {VSERVICE} |-> BACKEND]

(***************************************************************************)
(* Frames.  Header fields are in network byte order.                       *)
(***************************************************************************)
SYN == "SYN"
FIN == "FIN"
ACK == "ACK"

\* header sizes: EthHdr::LEN, Ipv4Hdr::LEN, size_of::<TcpHdr>(), size_of::<UdpHdr>()
ETH_HDR_LEN == 14
IPV4_HDR_LEN == 20
TCP_HDR_LEN == 20
UDP_HDR_LEN == 8

IPV4 == "Ipv4"
ARP == "Arp"
TCP == "Tcp"
UDP == "Udp"
ICMP == "Icmp"

\* a frame: len bytes between data and data_end, EtherType, IP protocol, and
\* the header fields the program reads
TcpFrame(from, to, flag, seq, ack_seq, ifidx) ==
    [src |-> to_k_endpoint(from), dst |-> to_k_endpoint(to), flag |-> flag,
     seq |-> ToBe32(seq), ack_seq |-> ToBe32(ack_seq), ifidx |-> ifidx,
     len |-> ETH_HDR_LEN + IPV4_HDR_LEN + TCP_HDR_LEN, ether_type |-> IPV4, proto |-> TCP]

NoFrame == [src |-> KEndpointNew(0, 0), dst |-> KEndpointNew(0, 0), flag |-> {},
            seq |-> 0, ack_seq |-> 0, ifidx |-> 0, len |-> 0, ether_type |-> IPV4,
            proto |-> TCP]

\* ptr_at::<T>(ctx, offset): TRUE when the T at offset ends within the frame
ptr_at(f, offset, size) == ~(offset + size > f.len)

\* extract_way: the declared way of a frame
extract_way(f) == KConnectionNew(KEndpointNew(f.src.ip, f.src.port),
                                 KEndpointNew(f.dst.ip, f.dst.port))

\* L4Hdr::is_fin: only a TCP header has the flag
is_fin(f) == f.proto = TCP /\ FIN \in f.flag

\* Packet::new(tcphdr): flags, and seq / ack_seq converted to host order
PacketNew(f) == [flag |-> f.flag, ack_seq |-> ToBe32(f.ack_seq), seq |-> ToBe32(f.seq)]

\* a band test that leaves the two edge ports of the band out
InColdStartBandOpen(port) == port > COLD_START_PORT_LOW /\ port < COLD_START_PORT_HIGH

\* a band test that takes in the port below and the port above the band
InColdStartBandWide(port) ==
    port >= COLD_START_PORT_LOW - 1 /\ port <= COLD_START_PORT_HIGH + 1

\* the cold-start band test of try_xdp_firewall, on the host-order port
InColdStartBand(port) == ~(port < COLD_START_PORT_LOW \/ port > COLD_START_PORT_HIGH)

\* BiPort::new: the source port in the high half of the u32, the destination
\* port in the low half
BiPortNew(src_port, dst_port) == [high |-> src_port, low |-> dst_port]

\* a split that hands out the low half first
split_net_low_first(bi_port) == <<bi_port.low, bi_port.high>>

\* BiPort::split_net: (self.0 >> 16, self.0 as u16)
split_net(bi_port) == <<bi_port.high, bi_port.low>>

\* update_packet_by_way: the addresses of the IPv4 header are set to the
\* way's, the ports of the TCP or UDP header by L4Hdr::set_bi_port
update_packet_by_way(f, way) ==
    LET ports == split_net(BiPortNew(way.from.port, way.to.port))
    IN  [f EXCEPT !.dst = KEndpointNew(way.to.ip, ports[2]),
                  !.src = KEndpointNew(way.from.ip, ports[1])]

XDP_PASS == "XDP_PASS"
XDP_DROP == "XDP_DROP"
XDP_TX == "XDP_TX"
XDP_ABORTED == "XDP_ABORTED"
Err == "Err"
Ok == "Ok"

\* the parse of try_xdp_firewall (lines 230-251): Ok when Ethernet, IPv4 and
\* TCP or UDP header are there, else what the run returns
ParseHeaders(f) ==
    IF ~ptr_at(f, 0, ETH_HDR_LEN) THEN Err
    ELSE IF f.ether_type # IPV4 THEN XDP_PASS
    ELSE IF ~ptr_at(f, ETH_HDR_LEN, IPV4_HDR_LEN) THEN Err
    ELSE IF f.proto = TCP
    THEN IF ~ptr_at(f, ETH_HDR_LEN + IPV4_HDR_LEN, TCP_HDR_LEN) THEN Err ELSE Ok
    ELSE IF f.proto = UDP
    THEN IF ~ptr_at(f, ETH_HDR_LEN + IPV4_HDR_LEN, UDP_HDR_LEN) THEN Err ELSE Ok
    ELSE XDP_PASS

CPUs == {"cpu0", "cpu1"}

NoEndpoint == KEndpointNew(0, 0)

IdleCpu == [pc |-> "idle", frame |-> NoFrame, to |-> NoEndpoint, from |-> NoEndpoint,
            ret |-> "none"]

VARIABLES
    CONNECTION,       \* Flow Table: KConnection -> KConnection
    SERVER_MAP,       \* Backend Table: KEndpoint -> KEndpoint
    SERVICE_PORTS,    \* Service-Port Pool: FIFO of host-order ports
    LOCAL_IP_MAP,     \* ifindex -> host-order local ip
    COLD_START_MAP,   \* Cold-Start Ring: sequence of KEndpoint
    PACKET_EVENT,     \* Packet-Event Ring: sequence of Notification
    DOOR_BELL_MAP,    \* KEndpoint -> 0/1
    PERFORMANCE_MAP,  \* KEndpoint -> 0/1
    cpu,              \* per CPU: the run of try_xdp_firewall in progress
    arrived,          \* frames the interface has handed to the program so far
    lib               \* library code run on its own: the decoder of events and
                      \* a HashMap keyed by Connection

bpf_vars == <<CONNECTION, SERVER_MAP, SERVICE_PORTS, LOCAL_IP_MAP, COLD_START_MAP,
              PACKET_EVENT, DOOR_BELL_MAP, PERFORMANCE_MAP>>

(***************************************************************************)
(* Datapath: try_xdp_firewall, one step per map operation that another CPU *)
(* or the control tier can observe.                                        *)
(***************************************************************************)
Return(c, r) == cpu' = [cpu EXCEPT ![c].pc = "ret", ![c].ret = r]

\* a reserve that hands out a slot of a full ring
ReserveAlways(ring) == TRUE

\* RingBuf::reserve: a slot is handed out while the ring has room
Reserve(ring) == Len(ring) < RING_SIZE

\* frame received: parse, extract_way, first CONNECTION.get (line 257)
XdpReceive(c, f) ==
    /\ cpu[c].pc = "idle"
    /\ arrived' = arrived + 1
    /\ cpu' = [cpu EXCEPT ![c] =
                 IF ParseHeaders(f) # Ok
                 THEN [IdleCpu EXCEPT !.frame = f, !.pc = "ret", !.ret = ParseHeaders(f)]
                 ELSE [IdleCpu EXCEPT !.frame = f,
                         !.pc = IF Has(CONNECTION, extract_way(f)) THEN "output"
                                                                   ELSE "server_map"]]
    /\ UNCHANGED bpf_vars

\* SERVER_MAP.get(&declare_way.to) and the cold-start branch (lines 259-283)
XdpServerMap(c) ==
    LET declare_way == extract_way(cpu[c].frame)
        port == ToBe16(declare_way.to.port)
    IN  /\ cpu[c].pc = "server_map"
        /\ IF Has(SERVER_MAP, declare_way.to)
           THEN /\ cpu' = [cpu EXCEPT ![c].pc = "pop", ![c].to = SERVER_MAP[declare_way.to]]
                /\ UNCHANGED COLD_START_MAP
           ELSE IF ~InColdStartBand(port)
           THEN /\ Return(c, XDP_PASS)
                /\ UNCHANGED COLD_START_MAP
           ELSE /\ COLD_START_MAP' = IF Reserve(COLD_START_MAP)
                                     THEN Append(COLD_START_MAP, declare_way.to)
                                     ELSE COLD_START_MAP
                /\ Return(c, XDP_DROP)
        /\ UNCHANGED <<CONNECTION, SERVER_MAP, SERVICE_PORTS, LOCAL_IP_MAP, PACKET_EVENT,
                       DOOR_BELL_MAP, PERFORMANCE_MAP>>

\* a pop that finds a port in the empty queue
QueuePopAlways(q) ==
    IF q = << >> THEN [some |-> TRUE, value |-> FIRST_SERVICE_PORT, rest |-> q]
    ELSE [some |-> TRUE, value |-> Head(q), rest |-> Tail(q)]

\* Queue::pop: the head of the queue and the queue without it, or none
QueuePop(q) ==
    IF q = << >> THEN [some |-> FALSE, value |-> 0, rest |-> q]
    ELSE [some |-> TRUE, value |-> Head(q), rest |-> Tail(q)]

\* SERVICE_PORTS.pop() and LOCAL_IP_MAP.get(&ifidx) (lines 284-309)
XdpPopPort(c) ==
    LET from_port == QueuePop(SERVICE_PORTS)
    IN  /\ cpu[c].pc = "pop"
        /\ SERVICE_PORTS' = from_port.rest
        /\ IF ~from_port.some
           THEN Return(c, XDP_DROP)
           ELSE IF ~Has(LOCAL_IP_MAP, cpu[c].frame.ifidx)
           THEN Return(c, XDP_DROP)
           ELSE cpu' = [cpu EXCEPT ![c].pc = "insert",
                          ![c].from = KEndpointNew(ToBe32(LOCAL_IP_MAP[cpu[c].frame.ifidx]),
                                                   ToBe16(from_port.value))]
    /\ UNCHANGED <<CONNECTION, SERVER_MAP, LOCAL_IP_MAP, COLD_START_MAP, PACKET_EVENT,
                   DOOR_BELL_MAP, PERFORMANCE_MAP>>

\* CONNECTION.insert(&declare_way, &out_way, 0) (lines 313-316)
XdpInsertForward(c) ==
    LET declare_way == extract_way(cpu[c].frame)
        out_way == KConnectionNew(cpu[c].from, cpu[c].to)
    IN  /\ cpu[c].pc = "insert"
        /\ IF BpfCanInsert(CONNECTION, declare_way, CONNECTION_MAX_ENTRIES)
           THEN /\ CONNECTION' = Put(CONNECTION, declare_way, out_way)
                /\ cpu' = [cpu EXCEPT ![c].pc = "insert_return"]
           ELSE /\ Return(c, Err)
                /\ UNCHANGED CONNECTION
        /\ UNCHANGED <<SERVER_MAP, SERVICE_PORTS, LOCAL_IP_MAP, COLD_START_MAP, PACKET_EVENT,
                       DOOR_BELL_MAP, PERFORMANCE_MAP>>

\* CONNECTION.insert(&return_output_way, &return_declare_way, 0) (lines 321-325)
XdpInsertReturn(c) ==
    LET declare_way == extract_way(cpu[c].frame)
        out_way == KConnectionNew(cpu[c].from, cpu[c].to)
    IN  /\ cpu[c].pc = "insert_return"
        /\ IF BpfCanInsert(CONNECTION, reverse(out_way), CONNECTION_MAX_ENTRIES)
           THEN /\ CONNECTION' = Put(CONNECTION, reverse(out_way), reverse(declare_way))
                /\ cpu' = [cpu EXCEPT ![c].pc = "output"]
           ELSE /\ Return(c, Err)
                /\ UNCHANGED CONNECTION
        /\ UNCHANGED <<SERVER_MAP, SERVICE_PORTS, LOCAL_IP_MAP, COLD_START_MAP, PACKET_EVENT,
                       DOOR_BELL_MAP, PERFORMANCE_MAP>>

\* the Notification published for a frame (lines 347-355)
NotificationNew(declare_way, output_way, f) ==
    [local_in_endpoint |-> declare_way.to,
     lcoal_out_endpoint |-> output_way.from,
     connection |-> KConnectionNew(declare_way.from, output_way.to),
     event |-> PacketNew(f)]

\* a tick that does not look at the value of the door bell
DoorBellTargetUnarmed(declare_way, output_way) ==
    IF Has(DOOR_BELL_MAP, declare_way.to) THEN {declare_way.to}
    ELSE IF Has(DOOR_BELL_MAP, output_way.from) THEN {output_way.from}
    ELSE {}

\* the endpoint whose performance bit the frame sets, if any (lines 374-388)
DoorBellTarget(declare_way, output_way) ==
    IF Has(DOOR_BELL_MAP, declare_way.to)
    THEN IF DOOR_BELL_MAP[declare_way.to] = 1 THEN {declare_way.to} ELSE {}
    ELSE IF Has(DOOR_BELL_MAP, output_way.from)
    THEN IF DOOR_BELL_MAP[output_way.from] = 1 THEN {output_way.from} ELSE {}
    ELSE {}

\* second CONNECTION.get, notification, door bell, rewrite (lines 328-403)
XdpOutput(c) ==
    LET declare_way == extract_way(cpu[c].frame)
        output_way == CONNECTION[declare_way]
        target == DoorBellTarget(declare_way, output_way)
    IN  /\ cpu[c].pc = "output"
        /\ IF ~Has(CONNECTION, declare_way)
           THEN /\ Return(c, XDP_PASS)
                /\ UNCHANGED <<PACKET_EVENT, PERFORMANCE_MAP>>
           ELSE /\ PACKET_EVENT' =
                      IF is_fin(cpu[c].frame) /\ Reserve(PACKET_EVENT)
                      THEN Append(PACKET_EVENT,
                                  NotificationNew(declare_way, output_way, cpu[c].frame))
                      ELSE PACKET_EVENT
                /\ PERFORMANCE_MAP' =
                      IF target = {} THEN PERFORMANCE_MAP
                      ELSE Put(PERFORMANCE_MAP, CHOOSE e \in target : TRUE, 1)
                /\ cpu' = [cpu EXCEPT ![c].pc = "ret", ![c].ret = XDP_TX,
                             ![c].frame = update_packet_by_way(cpu[c].frame, output_way)]
        /\ UNCHANGED <<CONNECTION, SERVER_MAP, SERVICE_PORTS, LOCAL_IP_MAP, COLD_START_MAP,
                       DOOR_BELL_MAP>>

\* the verdict folonet() hands to the driver for a finished run
Verdict(c) == IF cpu[c].ret = Err THEN XDP_ABORTED ELSE cpu[c].ret

\* folonet(): the run returns, the CPU is free for the next frame
folonet(c) ==
    /\ cpu[c].pc = "ret"
    /\ cpu' = [cpu EXCEPT ![c] = IdleCpu]
    /\ UNCHANGED bpf_vars

(***************************************************************************)
(* The per-peer TCP state machine (state/tcp.rs).                          *)
(***************************************************************************)
\* a state machine that falls back to Closed on an input its state does not
\* accept
TcpTransitionReset(state, input) ==
    CASE state = "Closed" /\ input = "PassiveOpen" -> "Listen"
      [] state = "Closed" /\ input = "SendSyn" -> "SynSent"
      [] state = "Listen" /\ input = "ReceiveSyn" -> "ListenReceiveSyn"
      [] state = "TimeWait" /\ input = "TimeExpired" -> "Closed"
      [] OTHER -> "Closed"

\* state_machine! TCP: the transition table; an input the state does not
\* accept is an error that the callers ignore, so the state stays
TcpTransition(state, input) ==
    CASE state = "Closed" /\ input = "PassiveOpen" -> "Listen"
      [] state = "Closed" /\ input = "SendSyn" -> "SynSent"
      [] state = "Listen" /\ input = "ReceiveSyn" -> "ListenReceiveSyn"
      [] state = "ListenReceiveSyn" /\ input = "SendSynAck" -> "SynReceived"
      [] state = "SynSent" /\ input = "ReceiveSyn" -> "SynSentReceiveSyn"
      [] state = "SynSent" /\ input = "ReceiveSynAck" -> "ReceiveSynAckReceiveSynAck"
      [] state = "SynSentReceiveSyn" /\ input = "SendAckForSyn" -> "SynReceived"
      [] state = "ReceiveSynAckReceiveSynAck" /\ input = "SendAckForSyn" -> "Established"
      [] state = "SynReceived" /\ input = "RecvAckForSyn" -> "Established"
      [] state = "Established" /\ input = "SendFin" -> "FinWait1"
      [] state = "Established" /\ input = "ReceiveFin" -> "CloseWait"
      [] state = "CloseWait" /\ input = "SendFin" -> "LastAck"
      [] state = "LastAck" /\ input = "RecvAckForFin" -> "Closed"
      [] state = "FinWait1" /\ input = "RecvAckForFin" -> "FinWait2"
      [] state = "FinWait1" /\ input = "ReceiveFin" -> "FinWait1ReceiveFin"
      [] state = "FinWait1ReceiveFin" /\ input = "SendAckForFin" -> "Closing"
      [] state = "FinWait2" /\ input = "ReceiveFin" -> "FinWait2ReceiveFin"
      [] state = "FinWait2ReceiveFin" /\ input = "SendAckForFin" -> "TimeWait"
      [] state = "Closing" /\ input = "RecvAckForFin" -> "TimeWait"
      [] state = "TimeWait" /\ input = "TimeExpired" -> "Closed"
      [] OTHER -> state

RECURSIVE ConsumeAll(_, _)
ConsumeAll(state, inputs) ==
    IF inputs = << >> THEN state
    ELSE ConsumeAll(TcpTransition(state, Head(inputs)), Tail(inputs))

NoSpecial == [kind |-> "None", seq |-> 0]

SpecialPacket(kind, seq) == [kind |-> kind, seq |-> seq]

\* TcpFsmState::new: a peer whose ip is in SERVER_IP_SET starts in Listen
TcpFsmStateNew(e, server_ips) ==
    [e |-> e,
     fsm |-> IF e.ip \in server_ips THEN TcpTransition("Closed", "PassiveOpen") ELSE "Closed",
     received_special_packet |-> NoSpecial,
     sent_special_packet |-> NoSpecial]

\* a derivation for a received packet that puts ReceiveSyn before ReceiveFin
check_receive_input_syn_first(peer, packet) ==
    (IF ACK \in packet.flag /\ peer.sent_special_packet.kind = "FIN"
           /\ peer.sent_special_packet.seq + 1 = packet.ack_seq
     THEN <<"RecvAckForFin">> ELSE << >>)
    \o (IF SYN \in packet.flag THEN <<"ReceiveSyn">> ELSE << >>)
    \o (IF FIN \in packet.flag THEN <<"ReceiveFin">> ELSE << >>)

\* TcpFsmState::check_receive_input
check_receive_input(peer, packet) ==
    (IF ACK \in packet.flag
     THEN CASE peer.sent_special_packet.kind = "FIN" ->
                  IF peer.sent_special_packet.seq + 1 = packet.ack_seq
                  THEN <<"RecvAckForFin">> ELSE << >>
            [] peer.sent_special_packet.kind = "SYN" ->
                  IF peer.sent_special_packet.seq + 1 = packet.ack_seq
                  THEN IF SYN \in packet.flag THEN <<"ReceiveSynAck">> ELSE <<"RecvAckForSyn">>
                  ELSE << >>
            [] OTHER -> << >>
     ELSE << >>)
    \o (IF FIN \in packet.flag THEN <<"ReceiveFin">> ELSE << >>)
    \o (IF SYN \in packet.flag THEN <<"ReceiveSyn">> ELSE << >>)

\* a derivation for a sent packet that puts SendFin before SendSyn
check_send_input_fin_first(peer, packet) ==
    (IF ACK \in packet.flag /\ peer.received_special_packet.kind = "FIN"
           /\ peer.received_special_packet.seq + 1 = packet.ack_seq
     THEN <<"SendAckForFin">> ELSE << >>)
    \o (IF FIN \in packet.flag THEN <<"SendFin">> ELSE << >>)
    \o (IF SYN \in packet.flag THEN <<"SendSyn">> ELSE << >>)

\* TcpFsmState::check_send_input
check_send_input(peer, packet) ==
    (IF ACK \in packet.flag
     THEN CASE peer.received_special_packet.kind = "FIN" ->
                  IF peer.received_special_packet.seq + 1 = packet.ack_seq
                  THEN <<"SendAckForFin">> ELSE << >>
            [] peer.received_special_packet.kind = "SYN" ->
                  IF peer.received_special_packet.seq + 1 = packet.ack_seq
                  THEN <<"SendAckForSyn">> ELSE << >>
            [] OTHER -> << >>
     ELSE << >>)
    \o (IF SYN \in packet.flag
        THEN IF ACK \in packet.flag THEN <<"SendSynAck">> ELSE <<"SendSyn">>
        ELSE << >>)
    \o (IF FIN \in packet.flag THEN <<"SendFin">> ELSE << >>)

\* PacketMsg::direction
direction(msg, e) == IF e = msg.from THEN "From" ELSE "To"

\* TcpFsmState::check_input
check_input(peer, packet, dir) ==
    IF dir = "From" THEN check_send_input(peer, packet) ELSE check_receive_input(peer, packet)

\* the TimeWait tail of handle_packet_event: TimeExpired is consumed at once
time_wait_expire(state) ==
    IF state = "TimeWait" THEN TcpTransition(state, "TimeExpired") ELSE state

\* TcpFsmState::handle_packet_event
handle_packet_event(peer, msg) ==
    LET packet == msg.packet
        dir == direction(msg, peer.e)
        consumed == ConsumeAll(peer.fsm, check_input(peer, packet, dir))
        special == IF FIN \in packet.flag THEN SpecialPacket("FIN", packet.seq)
                   ELSE IF SYN \in packet.flag THEN SpecialPacket("SYN", packet.seq)
                   ELSE NoSpecial
    IN  [e |-> peer.e,
         fsm |-> time_wait_expire(consumed),
         received_special_packet |->
             IF special # NoSpecial /\ dir = "To" THEN special
             ELSE peer.received_special_packet,
         sent_special_packet |->
             IF special # NoSpecial /\ dir = "From" THEN special
             ELSE peer.sent_special_packet]

is_closed(peer) == peer.fsm = "Closed"

\* CloseMsg::new
CloseMsgNew(from, to) == [from |-> from, to |-> to]

\* ConnectionState::new plus the task MsgWorker::new starts for it
ConnectionStateNew(from, to, server_ips) ==
    [client |-> TcpFsmStateNew(from, server_ips),
     server |-> TcpFsmStateNew(to, server_ips),
     chan |-> << >>,
     pc |-> "recv",
     close |-> CloseMsgNew(EndpointOf(0, 0), EndpointOf(0, 0))]

\* Connection: equality and hash do not tell the two directions apart, so a
\* HashMap keyed by Connection is keyed by the unordered pair of endpoints
ConnectionKey(from, to) == {from, to}

(***************************************************************************)
(* Messages of the control tier (message.rs, state/mod.rs).                *)
(***************************************************************************)
\* Message::from_notification
MessageFromNotification(n, from_client) ==
    IF from_client
    THEN [client |-> EndpointNew(n.connection.from),
          server |-> EndpointNew(n.connection.to),
          local_in |-> EndpointNew(n.local_in_endpoint),
          local_out |-> EndpointNew(n.lcoal_out_endpoint),
          from_client |-> from_client,
          packet |-> n.event]
    ELSE [client |-> EndpointNew(n.connection.to),
          server |-> EndpointNew(n.connection.from),
          local_in |-> EndpointNew(n.lcoal_out_endpoint),
          local_out |-> EndpointNew(n.local_in_endpoint),
          from_client |-> from_client,
          packet |-> n.event]

\* Message::to_u_connections
to_u_connections(msg) ==
    <<UConnectionNew(msg.client, msg.local_in), UConnectionNew(msg.server, msg.local_out)>>

\* PacketMsg::try_from(&Message)
PacketMsgFrom(msg) ==
    IF msg.from_client
    THEN [from |-> msg.client, to |-> msg.server, local_out_port |-> msg.local_out.port,
          packet |-> msg.packet]
    ELSE [from |-> msg.server, to |-> msg.client, local_out_port |-> msg.local_out.port,
          packet |-> msg.packet]

(***************************************************************************)
(* Control tier state.                                                     *)
(***************************************************************************)
WorkerIds == 1 .. MAX_WORKERS
FsmIds == 1 .. MAX_FSMS
SessionIds == 1 .. MAX_SESSIONS

NoPeer == [e |-> EndpointOf(0, 0), fsm |-> "Closed", received_special_packet |-> NoSpecial,
           sent_special_packet |-> NoSpecial]

NoPacketMsg == [from |-> EndpointOf(0, 0), to |-> EndpointOf(0, 0), local_out_port |-> 0,
                packet |-> [flag |-> {}, ack_seq |-> 0, seq |-> 0]]

NoMessage == [client |-> EndpointOf(0, 0), server |-> EndpointOf(0, 0),
              local_in |-> EndpointOf(0, 0), local_out |-> EndpointOf(0, 0),
              from_client |-> FALSE, packet |-> [flag |-> {}, ack_seq |-> 0, seq |-> 0]]

NoCloseMsg == CloseMsgNew(EndpointOf(0, 0), EndpointOf(0, 0))

NoUConns == <<KConnectionNew(NoEndpoint, NoEndpoint), KConnectionNew(NoEndpoint, NoEndpoint)>>

FreeFsm == [client |-> NoPeer, server |-> NoPeer, chan |-> << >>, pc |-> "none",
            close |-> NoCloseMsg]

\* MsgWorker::new(Service::new(..)): the service task, its ConnectionStateMgr and
\* the ConnectionStateMgr task, all idle
WorkerNew ==
    [used |-> TRUE,
     chan |-> << >>,
     svc |-> [pc |-> "recv", msg |-> NoMessage],
     state_map |-> EmptyMap,
     port_map |-> EmptyMap,
     connection_msp |-> EmptyMap,
     fsm |-> [i \in FsmIds |-> FreeFsm],
     close_chan |-> << >>,
     csm |-> [pc |-> "recv", msg |-> NoCloseMsg, u_conns |-> NoUConns]]

FreeWorker == [WorkerNew EXCEPT !.used = FALSE]

\* empty_windows: consecutive samples of the idle monitor that found the
\* endpoint idle
FreeSession == [pc |-> "none", e |-> EndpointOf(0, 0), server |-> EndpointOf(0, 0),
                empty_windows |-> 0]

IdleDispatch == [pc |-> "next", msg |-> NoMessage, w |-> 0]

VARIABLES
    SERVER_IP_SET,    \* host-order ips of the configured servers
    tcp_service_map,  \* Endpoint -> worker
    workers,          \* per-service workers: channels, tasks, ConnectionStateMgr
    sessions,         \* cold-start sessions (the tasks cold_start_handle spawns)
    dispatch          \* the packet_handle task

ctl_vars == <<SERVER_IP_SET, tcp_service_map, workers, sessions, dispatch>>

vars == <<CONNECTION, SERVER_MAP, SERVICE_PORTS, LOCAL_IP_MAP, COLD_START_MAP,
          PACKET_EVENT, DOOR_BELL_MAP, PERFORMANCE_MAP, cpu, arrived, lib,
          SERVER_IP_SET, tcp_service_map, workers, sessions, dispatch>>

(***************************************************************************)
(* Tasks that end.  A per-flow task whose MsgWorker was removed from        *)
(* state_map ends once its channel is drained (recv returns None); a worker *)
(* removed from tcp_service_map is inert once all its channels are drained. *)
(***************************************************************************)
FsmOrphan(wk, i) == \A k \in DOMAIN wk.state_map : wk.state_map[k] # i

ReapFsms(wk) ==
    [wk EXCEPT !.fsm = [i \in FsmIds |->
        IF wk.fsm[i].pc = "recv" /\ wk.fsm[i].chan = << >> /\ FsmOrphan(wk, i)
        THEN FreeFsm ELSE wk.fsm[i]]]

WorkerInert(wk) ==
    /\ wk.chan = << >>
    /\ wk.svc.pc = "recv"
    /\ wk.close_chan = << >>
    /\ wk.csm.pc \in {"recv", "panicked"}
    /\ \A i \in FsmIds : wk.fsm[i].chan = << >> /\ wk.fsm[i].pc \in {"none", "recv"}

Referenced(w, tsm) == \E e \in DOMAIN tsm : tsm[e] = w

Reap(ws, tsm) ==
    [w \in WorkerIds |->
        IF ~ws[w].used THEN ws[w]
        ELSE IF ~Referenced(w, tsm) /\ WorkerInert(ws[w]) THEN FreeWorker
        ELSE ReapFsms(ws[w])]

SetWorker(w, wk) == workers' = Reap([workers EXCEPT ![w] = wk], tcp_service_map)

(***************************************************************************)
(* packet_handle: drains PACKET_EVENT and hands each notification to the   *)
(* worker of its service (main.rs 286-345).  The tcp_service_map mutex is   *)
(* held until the send into the worker's channel has completed, and the    *)
(* ring record is released only then.                                      *)
(***************************************************************************)
TcpServiceMapLocked == dispatch.pc = "send"

\* the worker a notification goes to and the from_client flag (lines 313-326)
ServiceFor(n) ==
    LET local_in_endpoint == EndpointNew(n.local_in_endpoint)
        local_out_endpoint == EndpointNew(n.lcoal_out_endpoint)
    IN  IF Has(tcp_service_map, local_in_endpoint)
        THEN [found |-> TRUE, w |-> tcp_service_map[local_in_endpoint], from_client |-> TRUE]
        ELSE IF Has(tcp_service_map, local_out_endpoint)
        THEN [found |-> TRUE, w |-> tcp_service_map[local_out_endpoint], from_client |-> FALSE]
        ELSE [found |-> FALSE, w |-> 0, from_client |-> FALSE]

PacketHandleNext ==
    LET n == Head(PACKET_EVENT)
        service == ServiceFor(n)
        msg == MessageFromNotification(n, service.from_client)
    IN  /\ dispatch.pc = "next"
        /\ PACKET_EVENT # << >>
        /\ IF ~service.found
           THEN /\ PACKET_EVENT' = Tail(PACKET_EVENT)
                /\ UNCHANGED <<workers, dispatch>>
           ELSE IF Len(workers[service.w].chan) < CHANNEL_SIZE
           THEN /\ PACKET_EVENT' = Tail(PACKET_EVENT)
                /\ SetWorker(service.w, [workers[service.w] EXCEPT !.chan = Append(@, msg)])
                /\ UNCHANGED dispatch
           ELSE /\ dispatch' = [pc |-> "send", msg |-> msg, w |-> service.w]
                /\ UNCHANGED <<PACKET_EVENT, workers>>
        /\ UNCHANGED <<CONNECTION, SERVER_MAP, SERVICE_PORTS, LOCAL_IP_MAP, COLD_START_MAP,
                       DOOR_BELL_MAP, PERFORMANCE_MAP, cpu, arrived, lib, SERVER_IP_SET, tcp_service_map,
                       sessions>>

\* the send that found the worker's channel full completes
PacketHandleSend ==
    /\ dispatch.pc = "send"
    /\ Len(workers[dispatch.w].chan) < CHANNEL_SIZE
    /\ SetWorker(dispatch.w, [workers[dispatch.w] EXCEPT !.chan = Append(@, dispatch.msg)])
    /\ PACKET_EVENT' = Tail(PACKET_EVENT)
    /\ dispatch' = IdleDispatch
    /\ UNCHANGED <<CONNECTION, SERVER_MAP, SERVICE_PORTS, LOCAL_IP_MAP, COLD_START_MAP,
                   DOOR_BELL_MAP, PERFORMANCE_MAP, cpu, arrived, lib, SERVER_IP_SET, tcp_service_map,
                   sessions>>

(***************************************************************************)
(* The per-service worker task: MsgWorker<ConnectionStateMgr>::             *)
(* handle_packet_msg, three critical sections on the ConnectionStateMgr     *)
(* mutex (state/mod.rs 69-114).                                             *)
(***************************************************************************)
\* the ConnectionStateMgr mutex is held by the close handler
HandlerLockedByClose(wk) == wk.csm.pc \in {"push", "remove0", "remove1"}

\* the ConnectionStateMgr mutex is held by handle_packet_msg, blocked in its send
HandlerLockedBySend(wk) == wk.svc.pc = "sec1_send"

MsgKey(msg) == ConnectionKey(PacketMsgFrom(msg).from, PacketMsgFrom(msg).to)

FreeFsmIds(wk) == {i \in FsmIds : wk.fsm[i].pc = "none"}

Min(S) == CHOOSE x \in S : \A y \in S : x <= y

\* the worker's task takes the next message from its channel (worker.rs 42-67)
SvcRecv(w) ==
    LET wk == workers[w]
    IN  /\ wk.used
        /\ wk.svc.pc = "recv"
        /\ wk.chan # << >>
        /\ SetWorker(w, [wk EXCEPT !.chan = Tail(@),
                                   !.svc = [pc |-> "sec1", msg |-> Head(wk.chan)]])
        /\ UNCHANGED <<CONNECTION, SERVER_MAP, SERVICE_PORTS, LOCAL_IP_MAP, COLD_START_MAP,
                       PACKET_EVENT, DOOR_BELL_MAP, PERFORMANCE_MAP, cpu, arrived, lib, SERVER_IP_SET,
                       tcp_service_map, sessions, dispatch>>

\* first section: state_map.entry(conn).or_insert_with(..), then the packet is
\* sent into the per-flow channel while the mutex is held (lines 78-96)
SvcForward(w) ==
    LET wk == workers[w]
        pm == PacketMsgFrom(wk.svc.msg)
        key == ConnectionKey(pm.from, pm.to)
        known == Has(wk.state_map, key)
        i == IF known THEN wk.state_map[key] ELSE Min(FreeFsmIds(wk))
        entered == IF known THEN wk
                   ELSE [wk EXCEPT !.state_map = Put(@, key, i),
                                   !.fsm[i] = ConnectionStateNew(pm.from, pm.to, SERVER_IP_SET)]
    IN  /\ wk.used
        /\ wk.svc.pc = "sec1"
        /\ ~HandlerLockedByClose(wk)
        /\ known \/ FreeFsmIds(wk) # {}
        /\ IF Len(entered.fsm[i].chan) < CHANNEL_SIZE
           THEN SetWorker(w, [entered EXCEPT !.fsm[i].chan = Append(@, pm), !.svc.pc = "sec2"])
           ELSE SetWorker(w, [entered EXCEPT !.svc.pc = "sec1_send"])
        /\ UNCHANGED <<CONNECTION, SERVER_MAP, SERVICE_PORTS, LOCAL_IP_MAP, COLD_START_MAP,
                       PACKET_EVENT, DOOR_BELL_MAP, PERFORMANCE_MAP, cpu, arrived, lib, SERVER_IP_SET,
                       tcp_service_map, sessions, dispatch>>

\* the send into a full per-flow channel completes; the mutex is released
SvcForwardSend(w) ==
    LET wk == workers[w]
        pm == PacketMsgFrom(wk.svc.msg)
        i == wk.state_map[ConnectionKey(pm.from, pm.to)]
    IN  /\ wk.used
        /\ wk.svc.pc = "sec1_send"
        /\ Len(wk.fsm[i].chan) < CHANNEL_SIZE
        /\ SetWorker(w, [wk EXCEPT !.fsm[i].chan = Append(@, pm), !.svc.pc = "sec2"])
        /\ UNCHANGED <<CONNECTION, SERVER_MAP, SERVICE_PORTS, LOCAL_IP_MAP, COLD_START_MAP,
                       PACKET_EVENT, DOOR_BELL_MAP, PERFORMANCE_MAP, cpu, arrived, lib, SERVER_IP_SET,
                       tcp_service_map, sessions, dispatch>>

\* second section: record port (lines 97-104)
SvcRecordPort(w) ==
    LET wk == workers[w]
        pm == PacketMsgFrom(wk.svc.msg)
        key == ConnectionKey(pm.from, pm.to)
    IN  /\ wk.used
        /\ wk.svc.pc = "sec2"
        /\ ~HandlerLockedByClose(wk)
        /\ SetWorker(w, [wk EXCEPT
               !.port_map = IF Has(@, key) THEN @ ELSE Put(@, key, pm.local_out_port),
               !.svc.pc = "sec3"])
        /\ UNCHANGED <<CONNECTION, SERVER_MAP, SERVICE_PORTS, LOCAL_IP_MAP, COLD_START_MAP,
                       PACKET_EVENT, DOOR_BELL_MAP, PERFORMANCE_MAP, cpu, arrived, lib, SERVER_IP_SET,
                       tcp_service_map, sessions, dispatch>>

\* third section: record connections (lines 106-112)
SvcRecordConnections(w) ==
    LET wk == workers[w]
        key == MsgKey(wk.svc.msg)
    IN  /\ wk.used
        /\ wk.svc.pc = "sec3"
        /\ ~HandlerLockedByClose(wk)
        /\ SetWorker(w, [wk EXCEPT
               !.connection_msp = Put(@, key, to_u_connections(wk.svc.msg)),
               !.svc = [pc |-> "recv", msg |-> NoMessage]])
        /\ UNCHANGED <<CONNECTION, SERVER_MAP, SERVICE_PORTS, LOCAL_IP_MAP, COLD_START_MAP,
                       PACKET_EVENT, DOOR_BELL_MAP, PERFORMANCE_MAP, cpu, arrived, lib, SERVER_IP_SET,
                       tcp_service_map, sessions, dispatch>>

(***************************************************************************)
(* The per-flow task: ConnectionState::handle_message (state/tcp.rs 87-100).*)
(***************************************************************************)
\* a send into the close channel returns at once with an error when the
\* ConnectionStateMgr task is gone
CloseReceiverGone(wk) == wk.csm.pc = "panicked"

FsmHandle(w, i) ==
    LET wk == workers[w]
        st == wk.fsm[i]
        msg == Head(st.chan)
        client == handle_packet_event(st.client, msg)
        server == handle_packet_event(st.server, msg)
        handled == [st EXCEPT !.client = client, !.server = server, !.chan = Tail(@)]
        close == CloseMsgNew(msg.from, msg.to)
    IN  /\ wk.used
        /\ st.pc = "recv"
        /\ st.chan # << >>
        /\ IF ~(is_closed(client) /\ is_closed(server)) \/ CloseReceiverGone(wk)
           THEN SetWorker(w, [wk EXCEPT !.fsm[i] = handled])
           ELSE IF Len(wk.close_chan) < CHANNEL_SIZE
           THEN SetWorker(w, [wk EXCEPT !.fsm[i] = handled, !.close_chan = Append(@, close)])
           ELSE SetWorker(w, [wk EXCEPT !.fsm[i] = [handled EXCEPT !.pc = "send_close",
                                                                   !.close = close]])
        /\ UNCHANGED <<CONNECTION, SERVER_MAP, SERVICE_PORTS, LOCAL_IP_MAP, COLD_START_MAP,
                       PACKET_EVENT, DOOR_BELL_MAP, PERFORMANCE_MAP, cpu, arrived, lib, SERVER_IP_SET,
                       tcp_service_map, sessions, dispatch>>

\* the send of Close into a full channel completes (or fails: receiver gone)
FsmSendClose(w, i) ==
    LET wk == workers[w]
        st == wk.fsm[i]
        sent == [st EXCEPT !.pc = "recv", !.close = NoCloseMsg]
    IN  /\ wk.used
        /\ st.pc = "send_close"
        /\ CloseReceiverGone(wk) \/ Len(wk.close_chan) < CHANNEL_SIZE
        /\ IF CloseReceiverGone(wk)
           THEN SetWorker(w, [wk EXCEPT !.fsm[i] = sent])
           ELSE SetWorker(w, [wk EXCEPT !.fsm[i] = sent, !.close_chan = Append(@, st.close)])
        /\ UNCHANGED <<CONNECTION, SERVER_MAP, SERVICE_PORTS, LOCAL_IP_MAP, COLD_START_MAP,
                       PACKET_EVENT, DOOR_BELL_MAP, PERFORMANCE_MAP, cpu, arrived, lib, SERVER_IP_SET,
                       tcp_service_map, sessions, dispatch>>

(***************************************************************************)
(* The ConnectionStateMgr task: ConnectionStateMgr::handle_message for a   *)
(* CloseMsg (state/mod.rs 116-138).  An unwrap of a failed map operation    *)
(* panics the task: its mutex is released and its channel is closed.        *)
(***************************************************************************)
Panicked == [pc |-> "panicked", msg |-> NoCloseMsg, u_conns |-> NoUConns]

IdleCsm == [pc |-> "recv", msg |-> NoCloseMsg, u_conns |-> NoUConns]

CsmRecv(w) ==
    LET wk == workers[w]
    IN  /\ wk.used
        /\ wk.csm.pc = "recv"
        /\ wk.close_chan # << >>
        /\ SetWorker(w, [wk EXCEPT !.close_chan = Tail(@),
                                   !.csm = [pc |-> "close", msg |-> Head(wk.close_chan),
                                            u_conns |-> NoUConns]])
        /\ UNCHANGED <<CONNECTION, SERVER_MAP, SERVICE_PORTS, LOCAL_IP_MAP, COLD_START_MAP,
                       PACKET_EVENT, DOOR_BELL_MAP, PERFORMANCE_MAP, cpu, arrived, lib, SERVER_IP_SET,
                       tcp_service_map, sessions, dispatch>>

\* a close handling that leaves the flow's state machine in state_map
CsmCloseKeepsFsm(w) ==
    LET wk == workers[w]
    IN  /\ wk.used
        /\ wk.csm.pc = "close"
        /\ ~HandlerLockedBySend(wk)
        /\ SetWorker(w, [wk EXCEPT !.csm.pc = "push"])
        /\ UNCHANGED <<CONNECTION, SERVER_MAP, SERVICE_PORTS, LOCAL_IP_MAP, COLD_START_MAP,
                       PACKET_EVENT, DOOR_BELL_MAP, PERFORMANCE_MAP, cpu, arrived, lib, SERVER_IP_SET,
                       tcp_service_map, sessions, dispatch>>

\* the handler is locked for the Close message; state_map.remove (lines 120-121)
CsmClose(w) ==
    LET wk == workers[w]
        key == ConnectionKey(wk.csm.msg.from, wk.csm.msg.to)
    IN  /\ wk.used
        /\ wk.csm.pc = "close"
        /\ ~HandlerLockedBySend(wk)
        /\ SetWorker(w, [wk EXCEPT !.state_map = Del(@, key), !.csm.pc = "push"])
        /\ UNCHANGED <<CONNECTION, SERVER_MAP, SERVICE_PORTS, LOCAL_IP_MAP, COLD_START_MAP,
                       PACKET_EVENT, DOOR_BELL_MAP, PERFORMANCE_MAP, cpu, arrived, lib, SERVER_IP_SET,
                       tcp_service_map, sessions, dispatch>>

\* port_map.remove and the push of the port (lines 123-127), then
\* connection_msp.remove (line 129)
CsmPush(w) ==
    LET wk == workers[w]
        key == ConnectionKey(wk.csm.msg.from, wk.csm.msg.to)
        has_port == Has(wk.port_map, key)
        has_conns == Has(wk.connection_msp, key)
        removed == [wk EXCEPT !.port_map = Del(@, key), !.connection_msp = Del(@, key)]
    IN  /\ wk.used
        /\ wk.csm.pc = "push"
        /\ IF has_port /\ Len(SERVICE_PORTS) >= PORTS_QUEUE_SIZE
           THEN \* ports_map.push(port, 0).unwrap() on a full queue
                /\ SetWorker(w, [wk EXCEPT !.port_map = Del(@, key),
                                           !.close_chan = << >>, !.csm = Panicked])
                /\ UNCHANGED SERVICE_PORTS
           ELSE /\ SERVICE_PORTS' = IF has_port
                                    THEN Append(SERVICE_PORTS, wk.port_map[key])
                                    ELSE SERVICE_PORTS
                /\ IF has_conns
                   THEN SetWorker(w, [removed EXCEPT !.csm.pc = "remove0",
                                          !.csm.u_conns = wk.connection_msp[key]])
                   ELSE SetWorker(w, [removed EXCEPT !.csm = IdleCsm])
        /\ UNCHANGED <<CONNECTION, SERVER_MAP, LOCAL_IP_MAP, COLD_START_MAP,
                       PACKET_EVENT, DOOR_BELL_MAP, PERFORMANCE_MAP, cpu, arrived, lib, SERVER_IP_SET,
                       tcp_service_map, sessions, dispatch>>

\* conn_map.remove(&u_conns.0).unwrap() (line 132)
CsmRemove0(w) ==
    LET wk == workers[w]
    IN  /\ wk.used
        /\ wk.csm.pc = "remove0"
        /\ IF Has(CONNECTION, wk.csm.u_conns[1])
           THEN /\ CONNECTION' = Del(CONNECTION, wk.csm.u_conns[1])
                /\ SetWorker(w, [wk EXCEPT !.csm.pc = "remove1"])
           ELSE /\ SetWorker(w, [wk EXCEPT !.close_chan = << >>, !.csm = Panicked])
                /\ UNCHANGED CONNECTION
        /\ UNCHANGED <<SERVER_MAP, SERVICE_PORTS, LOCAL_IP_MAP, COLD_START_MAP,
                       PACKET_EVENT, DOOR_BELL_MAP, PERFORMANCE_MAP, cpu, arrived, lib, SERVER_IP_SET,
                       tcp_service_map, sessions, dispatch>>

\* conn_map.remove(&u_conns.1).unwrap() (line 133)
CsmRemove1(w) ==
    LET wk == workers[w]
    IN  /\ wk.used
        /\ wk.csm.pc = "remove1"
        /\ IF Has(CONNECTION, wk.csm.u_conns[2])
           THEN /\ CONNECTION' = Del(CONNECTION, wk.csm.u_conns[2])
                /\ SetWorker(w, [wk EXCEPT !.csm = IdleCsm])
           ELSE /\ SetWorker(w, [wk EXCEPT !.close_chan = << >>, !.csm = Panicked])
                /\ UNCHANGED CONNECTION
        /\ UNCHANGED <<SERVER_MAP, SERVICE_PORTS, LOCAL_IP_MAP, COLD_START_MAP,
                       PACKET_EVENT, DOOR_BELL_MAP, PERFORMANCE_MAP, cpu, arrived, lib, SERVER_IP_SET,
                       tcp_service_map, sessions, dispatch>>

(***************************************************************************)
(* Library code on its own: Event from u128 (folonet-common event.rs) and  *)
(* the HashMap keyed by Connection (endpoint.rs 114-139).                  *)
(***************************************************************************)
\* a u128 by the bit fields the decoder reads: bits 120..127, the set bits
\* among 64..95, bits 32..63 and bits 0..31
U128(type_id, flag_bits, ack_seq, seq) ==
    [type_id |-> type_id, flag_bits |-> flag_bits, ack_seq |-> ack_seq, seq |-> seq]

\* Packet::from(u128): PacketFlag::from_bits_truncate drops the unknown bits
PacketFromU128(v) ==
    [flag |-> v.flag_bits \cap {SYN, FIN, ACK}, ack_seq |-> v.ack_seq, seq |-> v.seq]

\* Event::from(u128): type id 1 is a packet event, every other type id panics
EventFromU128(v) ==
    IF v.type_id = 1 THEN [panic |-> FALSE, event |-> PacketFromU128(v)]
    ELSE [panic |-> TRUE, event |-> PacketFromU128(U128(0, {}, 0, 0))]

\* the derived Ord of Endpoint: by ip, then by port
EndpointGt(a, b) == a.ip > b.ip \/ (a.ip = b.ip /\ a.port > b.port)

\* Connection { from, to }
ConnectionNew(from, to) == [from |-> from, to |-> to]

\* PartialEq for Connection
ConnectionEq(c, other) ==
    \/ (c.from = other.from /\ c.to = other.to)
    \/ (c.to = other.from /\ c.from = other.to)

\* a hash that feeds from and to in the order of the fields
ConnectionHashOrdered(c) == <<c.from, c.to>>

\* Hash for Connection: what is fed to the hasher, the greater endpoint first
ConnectionHash(c) ==
    LET a == c.from
        b == c.to
    IN  IF EndpointGt(a, b) THEN <<a, b>> ELSE <<b, a>>

\* HashMap::get: the values of the entries whose key has the hash of k and
\* equals k
HashMapGet(map, k) ==
    {e.value : e \in {x \in map : ConnectionHash(x.key) = ConnectionHash(k)
                                     /\ ConnectionEq(x.key, k)}}

\* HashMap::insert: the value of the entry found for k is replaced (its key
\* stays), or a new entry is added
HashMapInsert(map, k, v) ==
    LET found == {x \in map : ConnectionHash(x.key) = ConnectionHash(k)
                                 /\ ConnectionEq(x.key, k)}
    IN  IF found = {} THEN map \cup {[key |-> k, value |-> v]}
        ELSE (map \ found) \cup {[key |-> x.key, value |-> v] : x \in found}

\* the checksummed fields of a frame, as the 16-bit words the program reads
\* (a 32-bit field is the pair of its words, the one at the lower address
\* first); ip_rest and l4_rest stand for the sum of the words the rewrite
\* leaves alone (for l4_rest: the rest of the pseudo header, of the L4 header
\* and the payload), which is not zero: the version and the protocol are
\* among these words
Headers(src_addr, dst_addr, ip_rest, ip_check, source, dest, l4_rest, l4_check) ==
    [src_addr |-> src_addr, dst_addr |-> dst_addr, ip_rest |-> ip_rest,
     ip_check |-> ip_check, source |-> source, dest |-> dest,
     l4_rest |-> l4_rest, l4_check |-> l4_check]

NoHeaders == Headers(<<0, 0>>, <<0, 0>>, 0, 0, 0, 0, 0, 0)

\* !x on a u16
Not16(x) == 65535 - x

\* u32 addition with end-around carry, on pairs of 16-bit words
CsumAdd32(a, b) ==
    LET lo == a[1] + b[1]
        hi == a[2] + b[2] + (lo \div 65536)
        lo2 == (lo % 65536) + (hi \div 65536)
    IN  <<lo2 % 65536, (hi % 65536) + (lo2 \div 65536)>>

\* bpf_csum_diff(from, 4, to, 4, seed): the one's-complement sum of seed, the
\* complement of the word at from and the word at to, as a 32-bit sum
bpf_csum_diff(from, to, seed) ==
    CsumAdd32(CsumAdd32(<<Not16(from[1]), Not16(from[2])>>, to), <<seed, 0>>)

\* one step of the fold: if csum >> 16 != 0, (csum & 0xFFFF) + (csum >> 16),
\* on a u64 by its four 16-bit limbs, the lowest first
FoldStep(c) ==
    LET s1 == c[1] + c[2]
        s2 == c[3] + (s1 \div 65536)
        s3 == c[4] + (s2 \div 65536)
    IN  IF c[2] = 0 /\ c[3] = 0 /\ c[4] = 0 THEN c
        ELSE <<s1 % 65536, s2 % 65536, s3 % 65536, s3 \div 65536>>

\* a fold of one step
csum_fold_once(csum) == FoldStep(csum)

\* csum_fold_helper up to the complement: the five unrolled steps
csum_fold(csum) == FoldStep(FoldStep(FoldStep(FoldStep(FoldStep(csum)))))

\* csum_fold_helper: !csum as u16
csum_fold_helper(csum) == Not16(csum_fold(csum)[1])

\* update_csum: the L4 checksum, and with update_ip_csum the IPv4 header
\* checksum, are updated for the word at from becoming new_val; sums are the
\* values handed to csum_fold_helper
update_csum(h, from, new_val, update_ip_csum) ==
    LET l4 == bpf_csum_diff(from, new_val, Not16(h.l4_check))
        ip == bpf_csum_diff(from, new_val, Not16(h.ip_check))
        l4_sum == <<l4[1], l4[2], 0, 0>>
        ip_sum == <<ip[1], ip[2], 0, 0>>
    IN  [h |-> [h EXCEPT !.l4_check = csum_fold_helper(l4_sum),
                         !.ip_check = IF update_ip_csum THEN csum_fold_helper(ip_sum) ELSE @],
         sums |-> IF update_ip_csum THEN <<l4_sum, ip_sum>> ELSE <<l4_sum>>]

\* update_packet_by_way up to "set mac": the destination address, the source
\* address and the pair of ports are rewritten, each after the checksums were
\* updated for it; the new pair of ports is the u32 of BiPort, whose low word
\* is the destination port
rewrite_l3_l4(h, way) ==
    LET u1 == update_csum(h, h.dst_addr, way.to.ip, TRUE)
        h1 == [u1.h EXCEPT !.dst_addr = way.to.ip]
        u2 == update_csum(h1, h1.src_addr, way.from.ip, TRUE)
        h2 == [u2.h EXCEPT !.src_addr = way.from.ip]
        bi_port == BiPortNew(way.from.port, way.to.port)
        u3 == update_csum(h2, <<h2.source, h2.dest>>, <<bi_port.low, bi_port.high>>, FALSE)
        h3 == [u3.h EXCEPT !.source = split_net(bi_port)[1], !.dest = split_net(bi_port)[2]]
    IN  [h |-> h3, sums |-> u1.sums \o u2.sums \o u3.sums]

\* no record handed to the decoder, no entry in the map
IdleLib == [decoder |-> [pc |-> "next", input |-> << >>, events |-> << >>],
            conn_map |-> {},
            encoder |-> [pc |-> "idle", depth |-> 0,
                         packet |-> [flag |-> {}, ack_seq |-> 0, seq |-> 0],
                         value |-> U128(0, {}, 0, 0)],
            kendpoint |-> [pc |-> "idle", a |-> [ip |-> 0, port |-> 0],
                           b |-> [ip |-> 0, port |-> 0],
                           val_a |-> <<0, 0, 0, 0>>, val_b |-> <<0, 0, 0, 0>>],
            fsm |-> [pc |-> "idle", server_side |-> FALSE, state |-> "Closed",
                     prev |-> "Closed", input |-> "None"],
            tcp |-> [conn |-> FreeFsm, closes |-> << >>, script |-> << >>],
            eth |-> [pc |-> "idle", IP_MAC_MAP |-> EmptyMap, to_ip |-> 0,
                     rx |-> [src_addr |-> <<0, 0, 0, 0, 0, 0>>,
                             dst_addr |-> <<0, 0, 0, 0, 0, 0>>,
                             src_ip |-> 0, dst_ip |-> 0],
                     src_addr |-> <<0, 0, 0, 0, 0, 0>>,
                     dst_addr |-> <<0, 0, 0, 0, 0, 0>>],
            csum |-> [pc |-> "idle", rx |-> NoHeaders, tx |-> NoHeaders,
                      way |-> [from |-> [ip |-> <<0, 0>>, port |-> 0],
                               to |-> [ip |-> <<0, 0>>, port |-> 0]],
                      sums |-> << >>, folded |-> << >>],
            ack |-> [pc |-> "idle", overflow_checks |-> FALSE, seq |-> <<0, 0>>,
                     ack_seq |-> <<0, 0>>, matched |-> FALSE]]

\* the consumer takes the next record and decodes it; a panic ends the task
DecodeNext ==
    LET r == EventFromU128(Head(lib.decoder.input))
    IN  /\ lib.decoder.pc = "next"
        /\ lib.decoder.input # << >>
        /\ lib' = [lib EXCEPT !.decoder =
                      IF r.panic THEN [@ EXCEPT !.pc = "panicked"]
                      ELSE [@ EXCEPT !.input = Tail(@), !.events = Append(@, r.event)]]
        /\ UNCHANGED <<bpf_vars, cpu, arrived, ctl_vars>>

\* map.insert(Connection { from, to }, v)
MapInsert(from, to, v) ==
    /\ Cardinality(lib.conn_map) < MAX_MAP_ENTRIES
          \/ HashMapGet(lib.conn_map, ConnectionNew(from, to)) # {}
    /\ lib' = [lib EXCEPT !.conn_map = HashMapInsert(@, ConnectionNew(from, to), v)]
    /\ UNCHANGED <<bpf_vars, cpu, arrived, ctl_vars>>

\* u128::from(&Packet): the body is value.into(), and Into<u128> for &Packet
\* is u128::from(&Packet) again: every call pushes a frame and calls itself,
\* no call returns, and the task dies when its stack is exhausted
PacketIntoU128 ==
    /\ lib.encoder.pc = "call"
    /\ \/ /\ lib.encoder.depth < MAX_STACK
          /\ lib' = [lib EXCEPT !.encoder.depth = @ + 1]
       \/ /\ lib.encoder.depth = MAX_STACK
          /\ lib' = [lib EXCEPT !.encoder.pc = "overflow"]
    /\ UNCHANGED <<bpf_vars, cpu, arrived, ctl_vars>>

\* a u64 by its four 16-bit limbs, the lowest first
\* KEndpoint::new: (port as u64) << 32 | ip as u64
KEndpointVal(ip, port) == <<ip % 65536, ip \div 65536, port, 0>>

\* KEndpoint::ip: self.0 as u32
KEndpointIp(val) == val[1] + val[2] * 65536

\* a port read 16 bits too low
KEndpointPortLow(val) == val[2]

\* KEndpoint::port: (self.0 >> 32) as u16
KEndpointPort(val) == val[3]

\* KEndpoint::new on two pairs of ip and port
KEndpointPack ==
    /\ lib.kendpoint.pc = "new"
    /\ lib' = [lib EXCEPT !.kendpoint.pc = "done",
                          !.kendpoint.val_a = KEndpointVal(lib.kendpoint.a.ip, lib.kendpoint.a.port),
                          !.kendpoint.val_b = KEndpointVal(lib.kendpoint.b.ip, lib.kendpoint.b.port)]
    /\ UNCHANGED <<bpf_vars, cpu, arrived, ctl_vars>>

\* StateMachine<TCP>::consume(input) on a state machine of one peer
FsmConsume(input) ==
    /\ lib.fsm.pc = "consume"
    /\ lib' = [lib EXCEPT !.fsm.prev = lib.fsm.state, !.fsm.input = input,
                          !.fsm.state = TcpTransition(lib.fsm.state, input)]
    /\ UNCHANGED <<bpf_vars, cpu, arrived, ctl_vars>>

\* ConnectionState::handle_message on a flow's state machine taken alone:
\* both peers handle the packet, and a Close is sent when both are Closed;
\* rest is what is left to feed afterwards
TcpHandleMessage(msg, rest) ==
    LET st == lib.tcp.conn
        client == handle_packet_event(st.client, msg)
        server == handle_packet_event(st.server, msg)
        handled == [st EXCEPT !.client = client, !.server = server]
    IN  /\ st.pc = "recv"
        /\ Len(lib.tcp.closes) < MAX_CLOSES
        /\ lib' = [lib EXCEPT !.tcp.conn = handled,
                              !.tcp.script = rest,
                              !.tcp.closes =
                                  IF is_closed(client) /\ is_closed(server)
                                  THEN Append(@, CloseMsgNew(msg.from, msg.to))
                                  ELSE @]
        /\ UNCHANGED <<bpf_vars, cpu, arrived, ctl_vars>>

\* Mac::new: the first two bytes are the high 16 bits and the last four the
\* low 32 bits of a u64, kept here by its four 16-bit limbs, the lowest first
MacNew(addr) ==
    <<addr[5] * 256 + addr[6], addr[3] * 256 + addr[4], addr[1] * 256 + addr[2], 0>>

\* Into<[u8; 6]> for Mac: the u64 written big-endian, without its first two
\* bytes
MacInto(val) ==
    <<val[3] \div 256, val[3] % 256, val[2] \div 256, val[2] % 256,
      val[1] \div 256, val[1] % 256>>

\* extract_way, "record ip with mac": the source address, then the
\* destination address, is recorded when its ip has no entry; a failed
\* insert ends the run with an error
record_ip_with_mac(map, f) ==
    LET src_ok == Has(map, f.src_ip) \/ BpfCanInsert(map, f.src_ip, IP_MAC_MAX_ENTRIES)
        m1 == IF Has(map, f.src_ip) THEN map ELSE Put(map, f.src_ip, MacNew(f.src_addr))
        dst_ok == Has(m1, f.dst_ip) \/ BpfCanInsert(m1, f.dst_ip, IP_MAC_MAX_ENTRIES)
        m2 == IF Has(m1, f.dst_ip) THEN m1 ELSE Put(m1, f.dst_ip, MacNew(f.dst_addr))
    IN  IF ~src_ok THEN [ret |-> Err, map |-> map]
        ELSE IF ~dst_ok THEN [ret |-> Err, map |-> m1]
        ELSE [ret |-> Ok, map |-> m2]

\* a rewrite that reads its fallback after the source field was overwritten
set_mac_after_copy(eth, map, ip) ==
    LET src_mac == MacInto(MacNew(eth.dst_addr))
    IN  [src_addr |-> src_mac,
         dst_addr |-> IF Has(map, ip) THEN MacInto(map[ip]) ELSE src_mac]

\* update_packet_by_way, "set mac": both addresses are read, then both are
\* copied into the header
set_mac(eth, map, ip) ==
    LET src_mac == MacInto(MacNew(eth.dst_addr))
        dst_mac == IF Has(map, ip) THEN MacInto(map[ip]) ELSE eth.src_addr
    IN  [src_addr |-> src_mac, dst_addr |-> dst_mac]

\* a frame arrives and extract_way records its addresses
EthReceive(f) ==
    LET r == record_ip_with_mac(lib.eth.IP_MAC_MAP, f)
    IN  /\ lib.eth.pc \in {"idle", "tx", "aborted"}
        /\ lib' = [lib EXCEPT !.eth = [pc |-> IF r.ret = Ok THEN "extracted" ELSE "aborted",
                                       IP_MAC_MAP |-> r.map, to_ip |-> 0, rx |-> f,
                                       src_addr |-> f.src_addr, dst_addr |-> f.dst_addr]]
        /\ UNCHANGED <<bpf_vars, cpu, arrived, ctl_vars>>

\* the frame is forwarded on an output tuple whose to.ip is ip
EthRewrite(ip) ==
    LET eth == set_mac(lib.eth, lib.eth.IP_MAC_MAP, ip)
    IN  /\ lib.eth.pc = "extracted"
        /\ lib' = [lib EXCEPT !.eth.pc = "tx", !.eth.to_ip = ip,
                              !.eth.src_addr = eth.src_addr,
                              !.eth.dst_addr = eth.dst_addr]
        /\ UNCHANGED <<bpf_vars, cpu, arrived, ctl_vars>>

\* the headers of a frame are rewritten to an output tuple
CsumRewrite ==
    LET r == rewrite_l3_l4(lib.csum.rx, lib.csum.way)
    IN  /\ lib.csum.pc = "rx"
        /\ lib' = [lib EXCEPT !.csum.pc = "tx", !.csum.tx = r.h,
                              !.csum.sums = r.sums,
                              !.csum.folded = [i \in DOMAIN r.sums |-> csum_fold(r.sums[i])]]
        /\ UNCHANGED <<bpf_vars, cpu, arrived, ctl_vars>>

\* seq + 1 on a u32, kept as the pair of its 16-bit halves, the low one
\* first: a build with overflow checks (the dev profile) panics on
\* 0xFFFFFFFF + 1, a build without them (the release profile) wraps to 0
U32AddOne(seq, overflow_checks) ==
    IF seq = <<65535, 65535>>
    THEN [panic |-> overflow_checks, value |-> <<0, 0>>]
    ELSE [panic |-> FALSE,
          value |-> IF seq[1] = 65535 THEN <<0, seq[2] + 1>> ELSE <<seq[1] + 1, seq[2]>>]

\* `seq + 1 == packet.ack_seq` for the remembered SYN(seq) or FIN(seq), as
\* check_receive_input and check_send_input evaluate it; a panic ends the
\* task of the flow
AckMatch ==
    LET sum == U32AddOne(lib.ack.seq, lib.ack.overflow_checks)
    IN  /\ lib.ack.pc = "check"
        /\ lib' = [lib EXCEPT !.ack.pc = IF sum.panic THEN "panicked" ELSE "done",
                              !.ack.matched = ~sum.panic /\ sum.value = lib.ack.ack_seq]
        /\ UNCHANGED <<bpf_vars, cpu, arrived, ctl_vars>>

(***************************************************************************)
(* Cold start (main.rs 189-283): cold_start_handle takes an endpoint from   *)
(* the ring and spawns a session: start_server, install, idle monitor.      *)
(***************************************************************************)
FreeSessionIds == {s \in SessionIds : sessions[s].pc = "none"}

FreeWorkerIds == {w \in WorkerIds : ~workers[w].used}

\* mutexes a session holds while it waits for the next one
ServerMapLocked == \E s \in SessionIds : sessions[s].pc \in {"register", "stop_worker"}

DoorBellLocked == \E s \in SessionIds : sessions[s].pc \in {"stop_server", "stop_worker"}

\* cold_start.next() and tokio::spawn (lines 204-212)
ColdStartNext ==
    /\ COLD_START_MAP # << >>
    /\ FreeSessionIds # {}
    /\ COLD_START_MAP' = Tail(COLD_START_MAP)
    /\ sessions' = [sessions EXCEPT ![Min(FreeSessionIds)] =
                       [pc |-> "start_server", e |-> EndpointNew(Head(COLD_START_MAP)),
                        server |-> EndpointOf(0, 0), empty_windows |-> 0]]
    /\ UNCHANGED <<CONNECTION, SERVER_MAP, SERVICE_PORTS, LOCAL_IP_MAP, PACKET_EVENT,
                   DOOR_BELL_MAP, PERFORMANCE_MAP, cpu, arrived, lib, SERVER_IP_SET, tcp_service_map,
                   workers, dispatch>>

\* start_server(e) answers; inactive ends the session (lines 213-219)
StartServer(s) ==
    /\ sessions[s].pc = "start_server"
    /\ sessions' = [sessions EXCEPT ![s] =
                       IF sessions[s].e \in DOMAIN Provisioned
                       THEN [@ EXCEPT !.pc = "install", !.server = Provisioned[sessions[s].e]]
                       ELSE FreeSession]
    /\ UNCHANGED <<CONNECTION, SERVER_MAP, SERVICE_PORTS, LOCAL_IP_MAP, COLD_START_MAP,
                   PACKET_EVENT, DOOR_BELL_MAP, PERFORMANCE_MAP, cpu, arrived, lib, SERVER_IP_SET,
                   tcp_service_map, workers, dispatch>>

\* server_map.insert under the server_map mutex (lines 221-224)
InstallBackend(s) ==
    /\ sessions[s].pc = "install"
    /\ ~ServerMapLocked
    /\ SERVER_MAP' = Put(SERVER_MAP, to_k_endpoint(sessions[s].e),
                         to_k_endpoint(sessions[s].server))
    /\ sessions' = [sessions EXCEPT ![s].pc = "register"]
    /\ UNCHANGED <<CONNECTION, SERVICE_PORTS, LOCAL_IP_MAP, COLD_START_MAP,
                   PACKET_EVENT, DOOR_BELL_MAP, PERFORMANCE_MAP, cpu, arrived, lib, SERVER_IP_SET,
                   tcp_service_map, workers, dispatch>>

\* tcp_service_map.insert(e, MsgWorker::new(Service::new(..))) (lines 225-233);
\* a worker already registered for e is replaced
RegisterWorker(s) ==
    LET w == Min(FreeWorkerIds)
        tsm == Put(tcp_service_map, sessions[s].e, w)
    IN  /\ sessions[s].pc = "register"
        /\ ~TcpServiceMapLocked
        /\ FreeWorkerIds # {}
        /\ tcp_service_map' = tsm
        /\ workers' = Reap([workers EXCEPT ![w] = WorkerNew], tsm)
        /\ sessions' = [sessions EXCEPT ![s].pc = "arm"]
        /\ UNCHANGED <<CONNECTION, SERVER_MAP, SERVICE_PORTS, LOCAL_IP_MAP, COLD_START_MAP,
                       PACKET_EVENT, DOOR_BELL_MAP, PERFORMANCE_MAP, cpu, arrived, lib, SERVER_IP_SET,
                       dispatch>>

\* idle monitor: door bell set, then the task sleeps DURATION (lines 243-249)
MonitorArm(s) ==
    /\ sessions[s].pc = "arm"
    /\ ~DoorBellLocked
    /\ DOOR_BELL_MAP' = Put(DOOR_BELL_MAP, to_k_endpoint(sessions[s].e), 1)
    /\ sessions' = [sessions EXCEPT ![s].pc = "sample"]
    /\ UNCHANGED <<CONNECTION, SERVER_MAP, SERVICE_PORTS, LOCAL_IP_MAP, COLD_START_MAP,
                   PACKET_EVENT, PERFORMANCE_MAP, cpu, arrived, lib, SERVER_IP_SET, tcp_service_map,
                   workers, dispatch>>

\* a monitor that takes only an unreadable value for idle
IdleSampleUnreadable(perf, k) == ~Has(perf, k)

\* a monitor that never finds the endpoint idle
IdleSampleNever(perf, k) == Has(perf, k) /\ perf[k] > 1

\* the sample says the endpoint was idle: cnt.is_err() || cnt.unwrap() == 0
IdleSample(perf, k) == ~Has(perf, k) \/ perf[k] = 0

\* idle monitor after the sleep: door bell cleared, performance read; an idle
\* sample goes on to stop the server, any other clears the performance entry
\* and the task sleeps again before it re-arms (lines 251-275)
MonitorSample(s) ==
    LET k == to_k_endpoint(sessions[s].e)
    IN  /\ sessions[s].pc = "sample"
        /\ ~DoorBellLocked
        /\ DOOR_BELL_MAP' = Put(DOOR_BELL_MAP, k, 0)
        /\ IF IdleSample(PERFORMANCE_MAP, k)
           THEN /\ sessions' = [sessions EXCEPT ![s].pc = "stop_server",
                                                 ![s].empty_windows = @ + 1]
                /\ UNCHANGED PERFORMANCE_MAP
           ELSE /\ PERFORMANCE_MAP' = Put(PERFORMANCE_MAP, k, 0)
                /\ sessions' = [sessions EXCEPT ![s].pc = "arm",
                                                 ![s].empty_windows = 0]
        /\ UNCHANGED <<CONNECTION, SERVER_MAP, SERVICE_PORTS, LOCAL_IP_MAP, COLD_START_MAP,
                       PACKET_EVENT, cpu, arrived, lib, SERVER_IP_SET, tcp_service_map, workers, dispatch>>

\* server_map.remove(&e).unwrap() (lines 264-265); a missing entry panics the
\* session task, which releases its mutexes
StopServer(s) ==
    LET k == to_k_endpoint(sessions[s].e)
    IN  /\ sessions[s].pc = "stop_server"
        /\ ~ServerMapLocked
        /\ IF Has(SERVER_MAP, k)
           THEN /\ SERVER_MAP' = Del(SERVER_MAP, k)
                /\ sessions' = [sessions EXCEPT ![s].pc = "stop_worker"]
           ELSE /\ sessions' = [sessions EXCEPT ![s] = FreeSession]
                /\ UNCHANGED SERVER_MAP
        /\ UNCHANGED <<CONNECTION, SERVICE_PORTS, LOCAL_IP_MAP, COLD_START_MAP,
                       PACKET_EVENT, DOOR_BELL_MAP, PERFORMANCE_MAP, cpu, arrived, lib, SERVER_IP_SET,
                       tcp_service_map, workers, dispatch>>

\* tcp_service_map.remove(&e).unwrap(); break (lines 266-268)
StopWorker(s) ==
    LET tsm == Del(tcp_service_map, sessions[s].e)
    IN  /\ sessions[s].pc = "stop_worker"
        /\ ~TcpServiceMapLocked
        /\ tcp_service_map' = tsm
        /\ workers' = Reap(workers, tsm)
        /\ sessions' = [sessions EXCEPT ![s] = FreeSession]
        /\ UNCHANGED <<CONNECTION, SERVER_MAP, SERVICE_PORTS, LOCAL_IP_MAP, COLD_START_MAP,
                       PACKET_EVENT, DOOR_BELL_MAP, PERFORMANCE_MAP, cpu, arrived, lib, SERVER_IP_SET,
                       dispatch>>

(***************************************************************************)
(* Start of the process (main.rs 88-184).                                  *)
(***************************************************************************)
InitialPorts == [i \in 1 .. PORTS_QUEUE_SIZE |-> FIRST_SERVICE_PORT + i - 1]

\* config.yaml lists VSERVICE as a TCP service with server BACKEND (static),
\* or lists no service
InitConfig(static) ==
    /\ CONNECTION = EmptyMap
    /\ SERVER_MAP = IF static
                    THEN Put(EmptyMap, to_k_endpoint(VSERVICE), to_k_endpoint(BACKEND))
                    ELSE EmptyMap
    /\ SERVICE_PORTS = InitialPorts
    /\ LOCAL_IP_MAP = Put(EmptyMap, IFINDEX, LOCAL_IP)
    /\ COLD_START_MAP = << >>
    /\ PACKET_EVENT = << >>
    /\ DOOR_BELL_MAP = EmptyMap
    /\ PERFORMANCE_MAP = EmptyMap
    /\ cpu = [c \in CPUs |-> IdleCpu]
    /\ arrived = 0
    /\ SERVER_IP_SET = IF static THEN {BACKEND.ip} ELSE {}
    /\ tcp_service_map = IF static THEN Put(EmptyMap, VSERVICE, 1) ELSE EmptyMap
    /\ workers = [w \in WorkerIds |-> IF static /\ w = 1 THEN WorkerNew ELSE FreeWorker]
    /\ sessions = [s \in SessionIds |-> FreeSession]
    /\ dispatch = IdleDispatch

(***************************************************************************)
(* Frames that arrive.                                                     *)
(***************************************************************************)
\* client to virtual service
ClientAck == TcpFrame(CLIENT, VSERVICE, {ACK}, 1, 1, IFINDEX)
ClientFin == TcpFrame(CLIENT, VSERVICE, {FIN, ACK}, 1, 1, IFINDEX)
\* backend to the local endpoint of a flow
ServerFin(p) == TcpFrame(BACKEND, LocalEndpoint(p), {FIN, ACK}, 1, 2, IFINDEX)
\* the first packet of a client for the virtual service
ClientSyn == TcpFrame(CLIENT, VSERVICE, {SYN}, 0, 0, IFINDEX)
\* the same packet on the interface that has no local address
ClientSynNoLocalIp == TcpFrame(CLIENT, VSERVICE, {SYN}, 0, 0, IFINDEX_NO_IP)
\* destinations at the edges of the cold-start band, none of them provisioned
EdgeFrame(port) ==
    TcpFrame(CLIENT, EndpointOf(VSERVICE.ip, port), {SYN}, 0, 0, IFINDEX)

EdgePorts == {COLD_START_PORT_LOW - 1, COLD_START_PORT_LOW,
              COLD_START_PORT_HIGH, COLD_START_PORT_HIGH + 1}

ColdFrames == {ClientSyn, ClientSynNoLocalIp} \cup {EdgeFrame(p) : p \in EdgePorts}

Frames ==
    {ClientAck, ClientFin} \cup {ServerFin(p) : p \in ServicePorts}

\* the frames of a three-way handshake and a graceful close begun by the
\* client, in the order they cross the interface; the backend answers to the
\* local endpoint of the first pooled port
HappyPath ==
    <<TcpFrame(CLIENT, VSERVICE, {SYN}, 0, 0, IFINDEX),
      TcpFrame(BACKEND, LocalEndpoint(FIRST_SERVICE_PORT), {SYN, ACK}, 0, 1, IFINDEX),
      TcpFrame(CLIENT, VSERVICE, {ACK}, 1, 1, IFINDEX),
      TcpFrame(CLIENT, VSERVICE, {FIN, ACK}, 1, 1, IFINDEX),
      TcpFrame(BACKEND, LocalEndpoint(FIRST_SERVICE_PORT), {ACK}, 1, 2, IFINDEX),
      TcpFrame(BACKEND, LocalEndpoint(FIRST_SERVICE_PORT), {FIN, ACK}, 1, 2, IFINDEX),
      TcpFrame(CLIENT, VSERVICE, {ACK}, 2, 2, IFINDEX)>>

\* the steps of a run of try_xdp_firewall after the frame was received
Forwarding(C) ==
    \/ \E c \in C : XdpServerMap(c) /\ UNCHANGED <<arrived, lib, ctl_vars>>
    \/ \E c \in C : XdpPopPort(c) /\ UNCHANGED <<arrived, lib, ctl_vars>>
    \/ \E c \in C : XdpInsertForward(c) /\ UNCHANGED <<arrived, lib, ctl_vars>>
    \/ \E c \in C : XdpInsertReturn(c) /\ UNCHANGED <<arrived, lib, ctl_vars>>
    \/ \E c \in C : XdpOutput(c) /\ UNCHANGED <<arrived, lib, ctl_vars>>
    \/ \E c \in C : folonet(c) /\ UNCHANGED <<arrived, lib, ctl_vars>>

\* any frame of F arrives, MAX_FRAMES frames in all
Datapath(C, F) ==
    \/ \E c \in C, f \in F : arrived < MAX_FRAMES /\ XdpReceive(c, f) /\ UNCHANGED <<lib, ctl_vars>>
    \/ Forwarding(C)

\* the frames of script arrive in order
ScriptedDatapath(C, script) ==
    \/ \E c \in C : arrived < Len(script) /\ XdpReceive(c, script[arrived + 1])
                                          /\ UNCHANGED <<lib, ctl_vars>>
    \/ Forwarding(C)

\* packet_handle and the per-service worker tasks
PacketPath ==
    \/ PacketHandleNext
    \/ PacketHandleSend
    \/ \E w \in WorkerIds : SvcRecv(w)
    \/ \E w \in WorkerIds : SvcForward(w)
    \/ \E w \in WorkerIds : SvcForwardSend(w)
    \/ \E w \in WorkerIds : SvcRecordPort(w)
    \/ \E w \in WorkerIds : SvcRecordConnections(w)
    \/ \E w \in WorkerIds, i \in FsmIds : FsmHandle(w, i)

\* the close path: the Close message and the ConnectionStateMgr task
ClosePath ==
    \/ \E w \in WorkerIds, i \in FsmIds : FsmSendClose(w, i)
    \/ \E w \in WorkerIds : CsmRecv(w)
    \/ \E w \in WorkerIds : CsmClose(w)
    \/ \E w \in WorkerIds : CsmPush(w)
    \/ \E w \in WorkerIds : CsmRemove0(w)
    \/ \E w \in WorkerIds : CsmRemove1(w)

ColdStart ==
    \/ ColdStartNext
    \/ \E s \in SessionIds : StartServer(s)
    \/ \E s \in SessionIds : InstallBackend(s)
    \/ \E s \in SessionIds : RegisterWorker(s)
    \/ \E s \in SessionIds : MonitorArm(s)
    \/ \E s \in SessionIds : MonitorSample(s)
    \/ \E s \in SessionIds : StopServer(s)
    \/ \E s \in SessionIds : StopWorker(s)

Init == InitConfig(FALSE) /\ lib = IdleLib

FlowEngine == PacketPath \/ ClosePath

Next == Datapath({"cpu0"}, Frames) \/ FlowEngine \/ ColdStart

Spec == Init /\ [][Next]_vars

(***************************************************************************)
(* Cold start and idle monitoring on their own: no frame carries FIN, so   *)
(* nothing is published on PACKET_EVENT and the flow engine has nothing to *)
(* do.                                                                     *)
(***************************************************************************)
ColdPathNext == Datapath({"cpu0"}, ColdFrames) \/ ColdStart

ColdPathSpec == Init /\ [][ColdPathNext]_vars

\* one step of the session s
SessionStep(s) ==
    \/ StartServer(s)
    \/ InstallBackend(s)
    \/ RegisterWorker(s)
    \/ MonitorArm(s)
    \/ MonitorSample(s)
    \/ StopServer(s)
    \/ StopWorker(s)

\* the runtime runs every task that can run, a sleep ends, and a CPU finishes
\* the run it has begun; whether another frame arrives is up to the network
FairColdPathSpec ==
    /\ ColdPathSpec
    /\ WF_vars(ColdStartNext)
    /\ \A s \in SessionIds : WF_vars(SessionStep(s))
    /\ WF_vars(Forwarding({"cpu0"}))

(***************************************************************************)
(* A statically configured service: config.yaml lists VSERVICE with server *)
(* BACKEND, and one client runs handshake and graceful close through it.   *)
(***************************************************************************)
StaticInit == InitConfig(TRUE) /\ lib = IdleLib

\* no frame of the script is for an endpoint without backend, so the
\* Cold-Start Ring stays empty and no session starts
StaticNext == ScriptedDatapath({"cpu0"}, HappyPath) \/ PacketPath

StaticSpec == StaticInit /\ [][StaticNext]_vars

(***************************************************************************)
(* The datapath on its own: a static service, the frames of several        *)
(* clients on both CPUs, and the control tier not scheduled.               *)
(***************************************************************************)
\* one client endpoint more than the pool has ports
WireClients == {EndpointOf(CLIENT.ip, CLIENT.port + i) : i \in 0 .. PORTS_QUEUE_SIZE}

\* frames the parse of try_xdp_firewall does not take to the Flow Table: too
\* short for the Ethernet, IPv4, TCP or UDP header, not IPv4, not TCP or UDP
ShortFrames ==
    {[ClientSyn EXCEPT !.len = ETH_HDR_LEN - 1],
     [ClientSyn EXCEPT !.len = ETH_HDR_LEN + IPV4_HDR_LEN - 1],
     [ClientSyn EXCEPT !.len = ETH_HDR_LEN + IPV4_HDR_LEN + TCP_HDR_LEN - 1],
     [ClientSyn EXCEPT !.proto = UDP, !.len = ETH_HDR_LEN + IPV4_HDR_LEN + UDP_HDR_LEN - 1]}

ForeignFrames ==
    {[ClientSyn EXCEPT !.ether_type = ARP], [ClientSyn EXCEPT !.proto = ICMP]}

\* the answer of the backend to the local endpoint of a flow
ServerSynAck(p) == TcpFrame(BACKEND, LocalEndpoint(p), {SYN, ACK}, 0, 1, IFINDEX)

\* a datagram of the client for the virtual service
ClientUdp ==
    [ClientSyn EXCEPT !.proto = UDP, !.flag = {},
                      !.len = ETH_HDR_LEN + IPV4_HDR_LEN + UDP_HDR_LEN]

WireFrames ==
    {TcpFrame(cl, VSERVICE, {SYN}, 0, 0, IFINDEX) : cl \in WireClients}
        \cup {ClientFin, ClientUdp}
        \cup {ServerSynAck(p) : p \in ServicePorts}
        \cup ShortFrames \cup ForeignFrames

WireNext == Datapath(CPUs, WireFrames)

WireSpec == StaticInit /\ [][WireNext]_vars

(***************************************************************************)
(* The decoder of events on the records of a ring, and the HashMap keyed   *)
(* by Connection under inserts in both directions.                         *)
(***************************************************************************)
\* records with a known and with unknown type ids, with known and unknown
\* flag bits
RawEvents ==
    {U128(id, bits, 1, 0) : id \in {0, 1, 2, 255}, bits \in {{SYN}, {FIN, ACK, "bit3"}}}

RawRecords == UNION {[1 .. n -> RawEvents] : n \in 1 .. MAX_RECORDS}

DecodeInit ==
    /\ InitConfig(FALSE)
    /\ \E input \in RawRecords : lib = [IdleLib EXCEPT !.decoder.input = input]

DecodeSpec == DecodeInit /\ [][DecodeNext]_vars

MapEndpoints == {CLIENT, CLIENT2, BACKEND}

ConnMapNext == \E from, to \in MapEndpoints, v \in FsmIds : MapInsert(from, to, v)

ConnMapSpec == Init /\ [][ConnMapNext]_vars

(***************************************************************************)
(* The encoder of packets and the packing of kernel endpoints, on inputs   *)
(* drawn from their types.                                                 *)
(***************************************************************************)
Packets ==
    [flag : SUBSET {SYN, FIN, ACK}, ack_seq : {0, 128, 2147483647}, seq : {0, 129}]

EncodeInit ==
    /\ InitConfig(FALSE)
    /\ \E p \in Packets :
          lib = [IdleLib EXCEPT !.encoder.pc = "call", !.encoder.packet = p]

EncodeSpec == EncodeInit /\ [][PacketIntoU128]_vars

\* addresses and ports in network byte order, the ends of the ranges included
KEndpointIps == {0, 1, to_k_endpoint(CLIENT).ip, 65536, 2147483647}

KEndpointPorts == {0, 1, ToBe16(80), 65535}

KEndpointInit ==
    /\ InitConfig(FALSE)
    /\ \E a, b \in [ip : KEndpointIps, port : KEndpointPorts] :
          lib = [IdleLib EXCEPT !.kendpoint.pc = "new", !.kendpoint.a = a,
                                !.kendpoint.b = b]

KEndpointSpec == KEndpointInit /\ [][KEndpointPack]_vars

(***************************************************************************)
(* The state machine of one peer under every input, and the state machine  *)
(* of one flow fed packets: any packets, or the packets of a connection.   *)
(***************************************************************************)
TCPInputs ==
    {"PassiveOpen", "SendSyn", "ReceiveSyn", "SendSynAck", "ReceiveSynAck", "SendAckForSyn",
     "RecvAckForSyn", "SendFin", "ReceiveFin", "SendAckForFin", "RecvAckForFin", "TimeExpired"}

\* TcpFsmState::new for a peer on the client side and one on the server side
FsmInit ==
    /\ InitConfig(FALSE)
    /\ \E e \in {CLIENT, BACKEND} :
          lib = [IdleLib EXCEPT !.fsm.pc = "consume",
                                !.fsm.server_side = (e = BACKEND),
                                !.fsm.state = TcpFsmStateNew(e, {BACKEND.ip}).fsm]

FsmNext == \E input \in TCPInputs : FsmConsume(input)

FsmSpec == FsmInit /\ [][FsmNext]_vars

\* PacketMsg of a packet from one end of the flow to the other
TcpMsg(from, to, flag, seq, ack_seq) ==
    [from |-> from, to |-> to, local_out_port |-> FIRST_SERVICE_PORT,
     packet |-> [flag |-> flag, ack_seq |-> ack_seq, seq |-> seq]]

\* packets of either direction with every set of flags; the client numbers
\* its packets 100 and the server 300, and an ACK is for one or the other
TcpMsgs ==
    {TcpMsg(w[1], w[2], flag, w[3], ack_seq) :
        w \in {<<CLIENT, BACKEND, 100>>, <<BACKEND, CLIENT, 300>>},
        flag \in SUBSET {SYN, FIN, ACK}, ack_seq \in {101, 301}}

\* ConnectionState::new with the server address in SERVER_IP_SET or not
TcpInit ==
    /\ InitConfig(FALSE)
    /\ \E ips \in {{}, {BACKEND.ip}} :
          lib = [IdleLib EXCEPT !.tcp.conn = ConnectionStateNew(CLIENT, BACKEND, ips)]

TcpNext == \E msg \in TcpMsgs : TcpHandleMessage(msg, << >>)

TcpSpec == TcpInit /\ [][TcpNext]_vars

\* SYN, SYN+ACK, ACK with the initial sequence numbers x of a and y of b
Handshake(a, b, x, y) ==
    <<TcpMsg(a, b, {SYN}, x, 0), TcpMsg(b, a, {SYN, ACK}, y, x + 1),
      TcpMsg(a, b, {ACK}, x + 1, y + 1)>>

\* FIN of a, its ACK, FIN of b, its ACK
OrdinaryClose(a, b, sa, sb) ==
    <<TcpMsg(a, b, {FIN, ACK}, sa, sb), TcpMsg(b, a, {ACK}, sb, sa + 1),
      TcpMsg(b, a, {FIN, ACK}, sb, sa + 1), TcpMsg(a, b, {ACK}, sa + 1, sb + 1)>>

\* FIN of a, FIN of b, then the two ACKs, that of first before that of second
SimultaneousClose(a, b, sa, sb, first, second) ==
    LET ack(p) == IF p = a THEN TcpMsg(a, b, {ACK}, sa + 1, sb + 1)
                  ELSE TcpMsg(b, a, {ACK}, sb + 1, sa + 1)
    IN  <<TcpMsg(a, b, {FIN, ACK}, sa, sb), TcpMsg(b, a, {FIN, ACK}, sb, sa),
          ack(first), ack(second)>>

\* the packets of a connection the client opens: either end closes first
ConnectionScripts ==
    UNION {
        {Handshake(CLIENT, BACKEND, x, y) \o OrdinaryClose(CLIENT, BACKEND, x + 1, y + 1),
         Handshake(CLIENT, BACKEND, x, y) \o OrdinaryClose(BACKEND, CLIENT, y + 1, x + 1),
         Handshake(CLIENT, BACKEND, x, y)
             \o SimultaneousClose(CLIENT, BACKEND, x + 1, y + 1, CLIENT, BACKEND),
         Handshake(CLIENT, BACKEND, x, y)
             \o SimultaneousClose(CLIENT, BACKEND, x + 1, y + 1, BACKEND, CLIENT),
         Handshake(CLIENT, BACKEND, x, y)
             \o SimultaneousClose(BACKEND, CLIENT, y + 1, x + 1, CLIENT, BACKEND),
         Handshake(CLIENT, BACKEND, x, y)
             \o SimultaneousClose(BACKEND, CLIENT, y + 1, x + 1, BACKEND, CLIENT)}
        : x \in {0, 100}, y \in {7, 300}}

TcpScriptInit ==
    /\ InitConfig(FALSE)
    /\ \E script \in ConnectionScripts :
          lib = [IdleLib EXCEPT !.tcp.conn = ConnectionStateNew(CLIENT, BACKEND, {BACKEND.ip}),
                                !.tcp.script = script]

TcpScriptNext ==
    /\ lib.tcp.script # << >>
    /\ TcpHandleMessage(Head(lib.tcp.script), Tail(lib.tcp.script))

TcpScriptSpec == TcpScriptInit /\ [][TcpScriptNext]_vars

(***************************************************************************)
(* The Ethernet addresses of forwarded frames.                              *)
(***************************************************************************)
\* the interfaces on the segment
Macs == {<<2, 0, 0, 0, 0, 1>>, <<2, 0, 0, 0, 1, 2>>, <<2, 255, 0, 0, 0, 20>>}

\* addresses in network byte order
EthIps == {to_k_endpoint(e).ip : e \in {CLIENT, VSERVICE, BACKEND}} \cup {ToBe32(LOCAL_IP)}

EthFrames ==
    {f \in [src_addr : Macs, dst_addr : Macs, src_ip : EthIps, dst_ip : EthIps] :
        f.src_addr # f.dst_addr /\ f.src_ip # f.dst_ip}

EthNext == (\E f \in EthFrames : EthReceive(f)) \/ (\E ip \in EthIps : EthRewrite(ip))

EthSpec == Init /\ [][EthNext]_vars

(***************************************************************************)
(* The checksums of forwarded frames.                                       *)
(***************************************************************************)
\* the one's-complement sum of 16-bit words, folded to 16 bits
OnesSum(n) == IF n = 0 THEN 0 ELSE ((n - 1) % 65535) + 1

IpSum(h) ==
    OnesSum(h.ip_rest + h.src_addr[1] + h.src_addr[2] + h.dst_addr[1] + h.dst_addr[2])

L4Sum(h) ==
    OnesSum(h.l4_rest + h.src_addr[1] + h.src_addr[2] + h.dst_addr[1] + h.dst_addr[2]
            + h.source + h.dest)

\* a receiver accepts a checksum when the sum over the covered words and the
\* checksum is all ones
IpVerifies(h) == OnesSum(IpSum(h) + h.ip_check) = 65535

L4Verifies(h) == OnesSum(L4Sum(h) + h.l4_check) = 65535

\* the checksums a sender may have put for a sum, and one it may not
Checks(sum) == {Not16(sum), 4660} \cup (IF sum = 65535 THEN {65535} ELSE {})

CsumAddrs == {<<0, 0>>, <<65535, 65535>>, <<10, 256>>, <<10, 5120>>}

CsumPorts == {0, 20480, 65535}

CsumHeaders ==
    UNION {{Headers(b.src_addr, b.dst_addr, b.ip_rest, ic, b.source, b.dest, b.l4_rest, lc) :
               ic \in Checks(IpSum(b)), lc \in Checks(L4Sum(b))} :
           b \in {Headers(sa, da, ir, 0, sp, 8080, lr, 0) :
                     sa \in CsumAddrs, da \in CsumAddrs, ir \in {1, 17664, 65535},
                     sp \in CsumPorts, lr \in {6, 57463, 65535}}}

CsumWays ==
    [from : [ip : CsumAddrs, port : {0, 4135}], to : [ip : CsumAddrs, port : {20480, 65535}]]

CsumInit ==
    /\ InitConfig(FALSE)
    /\ \E h \in CsumHeaders, way \in CsumWays :
          lib = [IdleLib EXCEPT !.csum.pc = "rx", !.csum.rx = h, !.csum.way = way]

CsumSpec == CsumInit /\ [][CsumRewrite]_vars

(***************************************************************************)
(* A flow whose frames with FIN are retransmitted, through a service that  *)
(* was cold-started by its first frame; the idle monitor of the service is *)
(* in the sleep of its first window.                                        *)
(***************************************************************************)
RETRANSMISSIONS == 4

FinFlood == <<ClientSyn, ClientFin>> \o [i \in 1 .. RETRANSMISSIONS |-> ClientFin]

\* the state the cold start of VSERVICE by the first frame of FinFlood ends
\* in: backend installed, worker registered, doorbell armed
ColdStarted ==
    /\ CONNECTION = EmptyMap
    /\ SERVER_MAP = Put(EmptyMap, to_k_endpoint(VSERVICE), to_k_endpoint(BACKEND))
    /\ SERVICE_PORTS = InitialPorts
    /\ LOCAL_IP_MAP = Put(EmptyMap, IFINDEX, LOCAL_IP)
    /\ COLD_START_MAP = << >>
    /\ PACKET_EVENT = << >>
    /\ DOOR_BELL_MAP = Put(EmptyMap, to_k_endpoint(VSERVICE), 1)
    /\ PERFORMANCE_MAP = EmptyMap
    /\ cpu = [c \in CPUs |-> IdleCpu]
    /\ arrived = 1
    /\ SERVER_IP_SET = {}
    /\ tcp_service_map = Put(EmptyMap, VSERVICE, 1)
    /\ workers = [w \in WorkerIds |-> IF w = 1 THEN WorkerNew ELSE FreeWorker]
    /\ sessions = [s \in SessionIds |->
                      IF s = 1 THEN [pc |-> "sample", e |-> VSERVICE, server |-> BACKEND,
                                     empty_windows |-> 0]
                      ELSE FreeSession]
    /\ dispatch = IdleDispatch

FloodInit == ColdStarted /\ lib = IdleLib

FloodNext == ScriptedDatapath({"cpu0"}, FinFlood) \/ FlowEngine

FloodSpec == FloodInit /\ [][FloodNext]_vars

(***************************************************************************)
(* The match of an acknowledgement with a remembered sequence number.      *)
(***************************************************************************)
\* sequence numbers at the ends of the range of a u32 and of its halves
SeqNumbers ==
    {<<0, 0>>, <<1, 0>>, <<65535, 0>>, <<0, 1>>, <<65534, 65535>>, <<65535, 65535>>}

\* the build of the program is with or without overflow checks
AckInit ==
    /\ InitConfig(FALSE)
    /\ \E seq \in SeqNumbers, ack_seq \in SeqNumbers, checks \in BOOLEAN :
          lib = [IdleLib EXCEPT !.ack.pc = "check", !.ack.overflow_checks = checks,
                                !.ack.seq = seq, !.ack.ack_seq = ack_seq]

AckSpec == AckInit /\ [][AckMatch]_vars

(***************************************************************************)
(* Properties of the Flow Table and the Service-Port Pool.                 *)
(***************************************************************************)
\* the entry that pairs with k -> CONNECTION[k] is present
FlowPaired(k) ==
    /\ Has(CONNECTION, reverse(CONNECTION[k]))
    /\ CONNECTION[reverse(CONNECTION[k])] = reverse(k)

\* no CPU is between the two inserts of a flow creation and no close handler
\* is between its two removes
FlowTableAtRest ==
    /\ \A c \in CPUs : cpu[c].pc # "insert_return"
    /\ \A w \in WorkerIds : workers[w].csm.pc # "remove1"

\* C1: whenever no flow creation and no close-time deletion is in progress,
\* every Flow Table entry f -> o has its paired entry o.reverse() -> f.reverse():
\* the two entries of a flow are both present or both absent.
C1_FlowEntriesPaired ==
    FlowTableAtRest => \A k \in DOMAIN CONNECTION : FlowPaired(k)

\* the local endpoints a live Flow Table entry names, in its key or its value
LiveLocalEndpoints ==
    UNION {{k.from, k.to, CONNECTION[k].from, CONNECTION[k].to} : k \in DOMAIN CONNECTION}

PooledPorts == {SERVICE_PORTS[i] : i \in 1 .. Len(SERVICE_PORTS)}

\* C2: a port contained in the Service-Port Pool is not the local port of any
\* live Flow Table entry, neither in its key nor in its value.
C2_PooledPortNotLive ==
    \A p \in PooledPorts : to_k_endpoint(LocalEndpoint(p)) \notin LiveLocalEndpoints

(***************************************************************************)
(* End to end: handshake and graceful close through a static service.      *)
(***************************************************************************)
\* every task of the control tier waits for its next message, no message is
\* in a ring or a channel, and no CPU is in a run
Drained ==
    /\ \A c \in CPUs : cpu[c].pc = "idle"
    /\ PACKET_EVENT = << >>
    /\ COLD_START_MAP = << >>
    /\ dispatch.pc = "next"
    /\ \A w \in WorkerIds :
          /\ workers[w].chan = << >>
          /\ workers[w].svc.pc = "recv"
          /\ workers[w].close_chan = << >>
          /\ workers[w].csm.pc \in {"recv", "panicked"}
          /\ \A i \in FsmIds : /\ workers[w].fsm[i].chan = << >>
                               /\ workers[w].fsm[i].pc \in {"none", "recv"}

HappyPathDone == arrived = Len(HappyPath) /\ Drained

\* every per-flow state machine that still exists has both peers Closed
PeersClosed ==
    \A w \in WorkerIds, i \in FsmIds :
        workers[w].fsm[i].pc # "none" =>
            is_closed(workers[w].fsm[i].client) /\ is_closed(workers[w].fsm[i].server)

\* C3: once the frames of handshake and graceful close have crossed the
\* datapath and every notification published for them has been handled, both
\* peers of the flow are Closed, the flow's port is back in the Service-Port
\* Pool and both Flow Table entries are gone.
C3_HappyPathReclaimed ==
    HappyPathDone =>
        /\ PeersClosed
        /\ FIRST_SERVICE_PORT \in PooledPorts
        /\ CONNECTION = EmptyMap

(***************************************************************************)
(* Close handling and idle reclamation.                                    *)
(***************************************************************************)
\* the flows a worker has a port or flow keys on record for although the
\* per-flow state machine is gone (removed by the handling of its Close)
ClosedButRecorded(wk) ==
    ((DOMAIN wk.port_map) \cup (DOMAIN wk.connection_msp)) \ (DOMAIN wk.state_map)

\* C4: once every Close a per-flow state machine emitted has been handled
\* (all channels drained, every task waiting), no worker has the port or the
\* flow keys of a closed flow still on record: the port went back to the pool
\* and both Flow Table entries were deleted by the handling of the Close.
C4_CloseReclaimsFlow ==
    Drained => \A w \in WorkerIds : workers[w].used => ClosedButRecorded(workers[w]) = {}

\* the declared way of the frame a notification was published for
DeclaredWayOf(n) == KConnectionNew(n.connection.from, n.local_in_endpoint)

\* the idle monitor of every session has ended
NoSessionAlive == \A s \in SessionIds : sessions[s].pc = "none"

\* packet_handle takes the head of PACKET_EVENT and finds no worker for it
NotificationDiscarded ==
    /\ PACKET_EVENT # << >>
    /\ Len(PACKET_EVENT') < Len(PACKET_EVENT)
    /\ ~ServiceFor(Head(PACKET_EVENT)).found

\* C5: no in-flight connection is lost to idle reclamation: after the idle
\* monitor has removed backend and worker, the notification of a FIN of a flow
\* that is still in the Flow Table is never discarded, so the close of the
\* flow still returns its port and deletes its entries.
C5_InFlightCloseNotLost ==
    [][(NoSessionAlive /\ NotificationDiscarded)
          => ~Has(CONNECTION, DeclaredWayOf(Head(PACKET_EVENT)))]_vars

\* session s has installed the backend of its endpoint and runs its idle monitor
Monitoring(s) == sessions[s].pc \in {"arm", "sample"}

\* C6: cold start is idempotent: a duplicate of an endpoint on the Cold-Start
\* Ring never leads to a second install, a second worker and a second idle
\* monitor loop for the endpoint: no two sessions monitor the same endpoint.
C6_ColdStartIdempotent ==
    \A s1, s2 \in SessionIds :
        (s1 # s2 /\ Monitoring(s1) /\ Monitoring(s2)) => sessions[s1].e # sessions[s2].e

(***************************************************************************)
(* The idle monitor and the cold-start branch of the datapath.             *)
(***************************************************************************)
SessionKey(s) == to_k_endpoint(sessions[s].e)

VServiceKey == to_k_endpoint(VSERVICE)

\* the Performance Table value of k is 0 or unreadable
PerfReadsEmpty(k) == ~Has(PERFORMANCE_MAP, k) \/ PERFORMANCE_MAP[k] = 0

\* a step removes the Backend Table entry of k, or the worker of e
BackendRemoved(k) == Has(SERVER_MAP, k) /\ ~Has(SERVER_MAP', k)

WorkerRemoved(e) == Has(tcp_service_map, e) /\ ~Has(tcp_service_map', e)

\* C7 as stated: the idle monitor removes a backend binding or its worker
\* only after it has observed two consecutive sample windows in which the
\* Performance Table value of the endpoint was 0 or unreadable.
C7_TwoEmptyWindows ==
    [][\A s \in SessionIds :
          (BackendRemoved(SessionKey(s)) \/ WorkerRemoved(sessions[s].e))
              => sessions[s].empty_windows >= 2]_vars

\* C7 amended: the idle monitor removes a backend binding and its worker only
\* after it has observed one sample window in which the Performance Table
\* value of the endpoint was 0 or unreadable, and it goes on to remove them
\* after every such window; a window in which the value was 1 removes neither
\* the Backend Table entry nor the worker.
C7_OneEmptyWindow ==
    [][/\ \A s \in SessionIds :
             (sessions[s].pc = "sample" /\ sessions'[s].pc # "sample") =>
                 IF PerfReadsEmpty(SessionKey(s))
                 THEN /\ sessions'[s].pc = "stop_server"
                      /\ sessions'[s].empty_windows = 1
                 ELSE /\ sessions'[s].pc = "arm"
                      /\ sessions'[s].empty_windows = 0
                      /\ SERVER_MAP' = SERVER_MAP
                      /\ tcp_service_map' = tcp_service_map
       /\ \A k \in DOMAIN SERVER_MAP :
             BackendRemoved(k) =>
                 \E s \in SessionIds : /\ SessionKey(s) = k
                                       /\ sessions[s].pc = "stop_server"
                                       /\ sessions'[s].pc = "stop_worker"
                                       /\ sessions[s].empty_windows = 1
       /\ \A e \in DOMAIN tcp_service_map :
             WorkerRemoved(e) =>
                 \E s \in SessionIds : /\ sessions[s].e = e
                                       /\ sessions[s].pc = "stop_worker"
                                       /\ sessions'[s].pc = "none"
                                       /\ sessions[s].empty_windows = 1]_vars

\* a monitor that saw traffic in an earlier window (it reset the Performance
\* Table value) has removed the backend after one empty window
C7_RemovedAfterOneWindow ==
    \E s \in SessionIds :
        /\ sessions[s].pc = "stop_worker"
        /\ sessions[s].empty_windows = 1
        /\ ~Has(SERVER_MAP, SessionKey(s))
        /\ Has(PERFORMANCE_MAP, SessionKey(s))
        /\ PERFORMANCE_MAP[SessionKey(s)] = 0

\* backend, worker and monitor of the virtual service are gone
Reclaimed ==
    /\ ~Has(SERVER_MAP, VServiceKey)
    /\ ~Has(tcp_service_map, VSERVICE)
    /\ \A s \in SessionIds : sessions[s].e # VSERVICE

\* CPU c looks up the backend of a packet for the virtual service after a
\* monitor of the service has run (the door bell entry exists) and finds none
ReclaimedMiss(c) ==
    /\ cpu[c].pc = "server_map"
    /\ cpu[c].frame.dst = VServiceKey
    /\ Has(DOOR_BELL_MAP, VServiceKey)
    /\ ~Has(SERVER_MAP, VServiceKey)

DstPort(c) == ToBe16(cpu[c].frame.dst.port)

\* CPU c is about to look up the backend of a frame (no Flow Table entry was
\* found for it) and the Backend Table has no entry for its destination
BackendMiss(c) ==
    /\ cpu[c].pc = "server_map"
    /\ ~Has(SERVER_MAP, cpu[c].frame.dst)

\* the run of CPU c drops the frame, publishes its destination when the ring
\* has space, and leaves Flow Table and Service-Port Pool alone
DropsAndPublishes(c) ==
    /\ cpu'[c].pc = "ret" /\ cpu'[c].ret = XDP_DROP
    /\ COLD_START_MAP' = IF Len(COLD_START_MAP) < RING_SIZE
                         THEN Append(COLD_START_MAP, cpu[c].frame.dst)
                         ELSE COLD_START_MAP
    /\ CONNECTION' = CONNECTION
    /\ SERVICE_PORTS' = SERVICE_PORTS

C11_PortExhaustion ==
    [][\A c \in CPUs :
          (cpu[c].pc = "pop" /\ cpu'[c] # cpu[c]) =>
              IF SERVICE_PORTS = << >>
              THEN /\ cpu'[c].pc = "ret" /\ cpu'[c].ret = XDP_DROP
                   /\ CONNECTION' = CONNECTION
                   /\ SERVICE_PORTS' = SERVICE_PORTS
                   /\ COLD_START_MAP' = COLD_START_MAP
                   /\ PACKET_EVENT' = PACKET_EVENT
              ELSE /\ SERVICE_PORTS' = Tail(SERVICE_PORTS)
                   /\ Has(LOCAL_IP_MAP, cpu[c].frame.ifidx) =>
                          /\ cpu'[c].pc = "insert"
                          /\ cpu'[c].from =
                                to_k_endpoint(LocalEndpoint(Head(SERVICE_PORTS)))]_vars

\* the pool is empty, the flow of one client is installed and the packet of
\* another client, backend resolved, was dropped without an entry
C11_SecondFlowDropped ==
    \E c \in CPUs :
        /\ cpu[c].pc = "ret" /\ cpu[c].ret = XDP_DROP
        /\ cpu[c].to = to_k_endpoint(BACKEND)
        /\ cpu[c].frame.ifidx = IFINDEX
        /\ SERVICE_PORTS = << >>
        /\ ~Has(CONNECTION, extract_way(cpu[c].frame))
        /\ \E k \in DOMAIN CONNECTION :
              /\ k.to = to_k_endpoint(VSERVICE)
              /\ FlowPaired(k)

\* C12: when the insert of the return entry fails after the insert of the
\* forward entry succeeded, the run removes the forward entry again before it
\* returns: the Flow Table does not keep the forward entry of the failed
\* creation.
C12_FailedInsertRolledBack ==
    [][\A c \in CPUs :
          LET declare_way == extract_way(cpu[c].frame)
              out_way == KConnectionNew(cpu[c].from, cpu[c].to)
          IN  (cpu[c].pc = "insert_return" /\ cpu'[c].pc = "ret") =>
                  ~(Has(CONNECTION', declare_way) /\ CONNECTION'[declare_way] = out_way)]_vars

\* the bytes of the headers the program reads in frame f
HeaderBytes(f) ==
    IF f.ether_type # IPV4 THEN ETH_HDR_LEN
    ELSE IF f.proto = TCP THEN ETH_HDR_LEN + IPV4_HDR_LEN + TCP_HDR_LEN
    ELSE IF f.proto = UDP THEN ETH_HDR_LEN + IPV4_HDR_LEN + UDP_HDR_LEN
    ELSE ETH_HDR_LEN + IPV4_HDR_LEN

\* C13: a frame that is too short for its Ethernet, IPv4 or TCP/UDP header
\* gets the verdict pass, never abort or drop.
C13_ShortFramePassed ==
    \A c \in CPUs :
        (cpu[c].pc = "ret" /\ cpu[c].frame.len < HeaderBytes(cpu[c].frame))
            => Verdict(c) = XDP_PASS

(***************************************************************************)
(* Half-close, and the order of the close handling.                        *)
(***************************************************************************)
\* the place of the client's FIN in the frames of HappyPath
FirstFin ==
    CHOOSE i \in 1 .. Len(HappyPath) :
        is_fin(HappyPath[i]) /\ \A j \in 1 .. (i - 1) : ~is_fin(HappyPath[j])

\* the client has sent its FIN after the handshake, the backend has not
\* answered it, and every notification published so far has been handled
HalfClosed == arrived = FirstFin /\ Drained

\* C14: after one side has sent FIN and while the other side has not ACKed
\* it, the peer of the FIN sender is in FinWait1, no Close was emitted, and
\* the Flow Table pair and the port of the flow stay resident.
C14_HalfCloseStaysFinWait1 ==
    HalfClosed =>
        /\ \E w \in WorkerIds, i \in FsmIds :
              /\ workers[w].fsm[i].pc # "none"
              /\ workers[w].fsm[i].client.e = CLIENT
              /\ workers[w].fsm[i].client.fsm = "FinWait1"
        /\ Has(CONNECTION, extract_way(ClientFin))
        /\ FlowPaired(extract_way(ClientFin))
        /\ FIRST_SERVICE_PORT \notin PooledPorts

\* the key of the flow whose Close the ConnectionStateMgr task of wk handles
ClosingKey(wk) == ConnectionKey(wk.csm.msg.from, wk.csm.msg.to)

\* C15: the handling of Close(flow) removes the flow's state machine first,
\* then pushes the flow's port to the Service-Port Pool, then deletes the
\* Flow Table entries: the step that removes the state machine changes
\* neither pool nor Flow Table; a port is pushed only for a flow whose state
\* machine is gone and before the handler has deleted an entry; an entry is
\* deleted only by a handler that has removed the state machine and has
\* given up the port of the flow.
C15_CloseOrder ==
    [][/\ \A w \in WorkerIds :
             LET wk == workers[w]
             IN  (wk.used /\ wk.csm.pc = "close" /\ workers'[w].csm.pc # "close") =>
                     /\ workers'[w].csm.pc = "push"
                     /\ ~Has(workers'[w].state_map, ClosingKey(wk))
                     /\ workers'[w].port_map = wk.port_map
                     /\ SERVICE_PORTS' = SERVICE_PORTS
                     /\ CONNECTION' = CONNECTION
       /\ Len(SERVICE_PORTS') > Len(SERVICE_PORTS) =>
             \E w \in WorkerIds :
                 LET wk == workers[w]
                 IN  /\ wk.used /\ wk.csm.pc = "push"
                     /\ ~Has(wk.state_map, ClosingKey(wk))
                     /\ Has(wk.port_map, ClosingKey(wk))
                     /\ SERVICE_PORTS' = Append(SERVICE_PORTS, wk.port_map[ClosingKey(wk)])
                     /\ workers'[w].csm.pc \in {"remove0", "recv"}
                     /\ CONNECTION' = CONNECTION
       /\ (DOMAIN CONNECTION') # (DOMAIN CONNECTION) /\ (DOMAIN CONNECTION') \subseteq (DOMAIN CONNECTION) =>
             \E w \in WorkerIds :
                 LET wk == workers[w]
                 IN  /\ wk.used /\ wk.csm.pc \in {"remove0", "remove1"}
                     /\ ~Has(wk.state_map, ClosingKey(wk))
                     /\ ~Has(wk.port_map, ClosingKey(wk))
                     /\ SERVICE_PORTS' = SERVICE_PORTS]_vars

\* a close handler has removed the state machine, pushed the port and
\* deleted the first of the two entries of the flow
C15_PortBackEntryLeft ==
    \E w \in WorkerIds :
        LET wk == workers[w]
        IN  /\ wk.used /\ wk.csm.pc = "remove1"
            /\ ~Has(wk.state_map, ClosingKey(wk))
            /\ ~Has(CONNECTION, wk.csm.u_conns[1])
            /\ Has(CONNECTION, wk.csm.u_conns[2])
            /\ ToBe16(wk.csm.u_conns[2].to.port) \in PooledPorts

(***************************************************************************)
(* Translation: round trip, rewrite, and the notification of a FIN.        *)
(***************************************************************************)
\* the run of CPU c has transmitted its frame, rewritten to the tuple o
Transmitted(c, o) ==
    /\ cpu[c].pc = "ret" /\ cpu[c].ret = XDP_TX
    /\ extract_way(cpu[c].frame) = o

\* CPU c takes a frame with the tuple d from the interface
Receives(c, d) ==
    /\ cpu[c].pc = "idle" /\ cpu'[c].pc # "idle"
    /\ ParseHeaders(cpu'[c].frame) = Ok
    /\ extract_way(cpu'[c].frame) = d

\* C16: after the datapath has translated a packet to the output tuple o, a
\* packet with the tuple o.reverse() finds its Flow Table entry, which is
\* t.reverse() for the tuple t that is translated to o: it is rewritten
\* without a port being taken or an entry inserted (no flow is closed while
\* the control tier does not run).
C16_RoundTrip ==
    [][\A c1, c2 \in CPUs :
          \A o \in {CONNECTION[t] : t \in DOMAIN CONNECTION} :
              (Transmitted(c1, o) /\ Receives(c2, reverse(o))) =>
                  /\ cpu'[c2].pc = "output"
                  /\ \E t \in DOMAIN CONNECTION :
                        CONNECTION[t] = o /\ CONNECTION[reverse(o)] = reverse(t)]_vars

C18_FullRingSkipsNotification ==
    [][/\ \A c \in CPUs :
             LET f == cpu[c].frame
                 t == extract_way(f)
             IN  (cpu[c].pc = "output" /\ cpu'[c] # cpu[c] /\ Has(CONNECTION, t)) =>
                     /\ cpu'[c] = [cpu[c] EXCEPT !.pc = "ret", !.ret = XDP_TX,
                                                 !.frame.src = CONNECTION[t].from,
                                                 !.frame.dst = CONNECTION[t].to]
                     /\ (f.proto = TCP /\ FIN \in f.flag /\ Len(PACKET_EVENT) = RING_SIZE)
                            => PACKET_EVENT' = PACKET_EVENT
                     /\ (f.proto = TCP /\ FIN \in f.flag /\ Len(PACKET_EVENT) < RING_SIZE)
                            => /\ Len(PACKET_EVENT') = Len(PACKET_EVENT) + 1
                               /\ SubSeq(PACKET_EVENT', 1, Len(PACKET_EVENT)) = PACKET_EVENT
                               /\ PACKET_EVENT'[Len(PACKET_EVENT')].connection =
                                      KConnectionNew(t.from, CONNECTION[t].to)
                     /\ ~(f.proto = TCP /\ FIN \in f.flag) => PACKET_EVENT' = PACKET_EVENT
       /\ Len(PACKET_EVENT') > Len(PACKET_EVENT) =>
             /\ Len(PACKET_EVENT') = Len(PACKET_EVENT) + 1
             /\ \E c \in CPUs : cpu[c].pc = "output" /\ cpu'[c].pc = "ret"]_vars

\* two packets with FIN were transmitted rewritten, and the full ring holds
\* the notification of one of them only
C18_TransmittedUnnotified ==
    /\ Len(PACKET_EVENT) = RING_SIZE
    /\ \A c \in CPUs :
          /\ cpu[c].pc = "ret" /\ cpu[c].ret = XDP_TX
          /\ FIN \in cpu[c].frame.flag
          /\ cpu[c].frame.dst = to_k_endpoint(BACKEND)
    /\ Cardinality(CPUs) > RING_SIZE

(***************************************************************************)
(* The decoder of events, and the identity of a connection.                *)
(***************************************************************************)
\* C19: a record whose type id is not a known one is discarded and the
\* consumer goes on with the next record; decoding never ends the task.
C19_UnknownTagDiscarded ==
    [][(lib.decoder.input # << >> /\ lib'.decoder # lib.decoder
          /\ Head(lib.decoder.input).type_id # 1) =>
              /\ lib'.decoder.pc = "next"
              /\ lib'.decoder.input = Tail(lib.decoder.input)
              /\ lib'.decoder.events = lib.decoder.events]_vars

MapConnections == {ConnectionNew(a, b) : a, b \in MapEndpoints}

\* C20: Connection{a, b} equals Connection{b, a} and both feed the hasher
\* alike; two Connections are equal exactly when their endpoints are the
\* same unordered pair; an entry inserted under one direction is found under
\* the other, and a map never holds two entries for the two directions of
\* one connection.
C20_ConnectionDirectionAgnostic ==
    /\ \A a, b \in MapEndpoints :
          /\ ConnectionEq(ConnectionNew(a, b), ConnectionNew(b, a))
          /\ ConnectionHash(ConnectionNew(a, b)) = ConnectionHash(ConnectionNew(b, a))
    /\ \A c1, c2 \in MapConnections :
          /\ ConnectionEq(c1, c2) <=>
                 ConnectionKey(c1.from, c1.to) = ConnectionKey(c2.from, c2.to)
          /\ ConnectionEq(c1, c2) => ConnectionHash(c1) = ConnectionHash(c2)
    /\ \A e \in lib.conn_map :
          /\ HashMapGet(lib.conn_map, e.key) = {e.value}
          /\ HashMapGet(lib.conn_map, ConnectionNew(e.key.to, e.key.from)) = {e.value}
    /\ \A e1, e2 \in lib.conn_map :
          ConnectionKey(e1.key.from, e1.key.to) = ConnectionKey(e2.key.from, e2.key.to)
              => e1 = e2

\* the map holds an entry of client to backend and one of backend to the
\* second client, each found under the other direction
C20_FoundUnderOtherDirection ==
    /\ \E e \in lib.conn_map : e.key = ConnectionNew(CLIENT, BACKEND)
    /\ \E e \in lib.conn_map : e.key = ConnectionNew(BACKEND, CLIENT2)
    /\ HashMapGet(lib.conn_map, ConnectionNew(BACKEND, CLIENT)) # {}
    /\ HashMapGet(lib.conn_map, ConnectionNew(CLIENT2, BACKEND)) # {}

(***************************************************************************)
(* Encodings: packets as u128, kernel endpoints as u64.                    *)
(***************************************************************************)
\* C21: converting a Packet to its 128-bit encoding terminates, and decoding
\* the encoding gives the Packet back.
C21_PacketRoundTrip ==
    /\ lib.encoder.pc # "overflow"
    /\ lib.encoder.pc = "done" => PacketFromU128(lib.encoder.value) = lib.encoder.packet

\* C22: KEndpoint::new(ip, port).ip() is ip and .port() is port, and two
\* endpoints have equal packed keys exactly when ip and port are equal.
C22_KEndpointFields ==
    lib.kendpoint.pc = "done" =>
        /\ KEndpointIp(lib.kendpoint.val_a) = lib.kendpoint.a.ip
        /\ KEndpointPort(lib.kendpoint.val_a) = lib.kendpoint.a.port
        /\ lib.kendpoint.val_a = lib.kendpoint.val_b <=> lib.kendpoint.a = lib.kendpoint.b

\* two endpoints packed that share the address and differ in the port, the
\* address using the high half of its 32 bits
C22_SameIpOtherPort ==
    /\ lib.kendpoint.pc = "done"
    /\ lib.kendpoint.a.ip = lib.kendpoint.b.ip
    /\ lib.kendpoint.a.ip > 65535
    /\ lib.kendpoint.a.port # lib.kendpoint.b.port
    /\ lib.kendpoint.val_a # lib.kendpoint.val_b

(***************************************************************************)
(* The TCP state machine of a flow.                                        *)
(***************************************************************************)
\* the transitions the specification lists, as <<state, input, next state>>
ListedTransitions ==
    {<<"Closed", "PassiveOpen", "Listen">>, <<"Closed", "SendSyn", "SynSent">>,
     <<"Listen", "ReceiveSyn", "ListenReceiveSyn">>,
     <<"ListenReceiveSyn", "SendSynAck", "SynReceived">>,
     <<"SynSent", "ReceiveSyn", "SynSentReceiveSyn">>,
     <<"SynSentReceiveSyn", "SendAckForSyn", "SynReceived">>,
     <<"SynSent", "ReceiveSynAck", "ReceiveSynAckReceiveSynAck">>,
     <<"ReceiveSynAckReceiveSynAck", "SendAckForSyn", "Established">>,
     <<"SynReceived", "RecvAckForSyn", "Established">>,
     <<"Established", "SendFin", "FinWait1">>, <<"Established", "ReceiveFin", "CloseWait">>,
     <<"CloseWait", "SendFin", "LastAck">>, <<"LastAck", "RecvAckForFin", "Closed">>,
     <<"FinWait1", "RecvAckForFin", "FinWait2">>,
     <<"FinWait2", "ReceiveFin", "FinWait2ReceiveFin">>,
     <<"FinWait2ReceiveFin", "SendAckForFin", "TimeWait">>,
     <<"FinWait1", "ReceiveFin", "FinWait1ReceiveFin">>,
     <<"FinWait1ReceiveFin", "SendAckForFin", "Closing">>,
     <<"Closing", "RecvAckForFin", "TimeWait">>, <<"TimeWait", "TimeExpired", "Closed">>}

\* C23: the state machine of a peer starts in Closed, or in Listen on the
\* server side; an input takes it along the listed transition of its state,
\* and leaves the state unchanged when no transition is listed for the pair.
C23_ListedTransitionsOnly ==
    /\ lib.fsm.pc = "consume" /\ lib.fsm.input = "None" =>
          lib.fsm.state = IF lib.fsm.server_side THEN "Listen" ELSE "Closed"
    /\ lib.fsm.input # "None" =>
          IF \E t \in ListedTransitions : t[1] = lib.fsm.prev /\ t[2] = lib.fsm.input
          THEN <<lib.fsm.prev, lib.fsm.input, lib.fsm.state>> \in ListedTransitions
          ELSE lib.fsm.state = lib.fsm.prev

\* a state machine in Closed is handed TimeExpired and stays in Closed
C23_TimeExpiredInClosed ==
    /\ lib.fsm.prev = "Closed"
    /\ lib.fsm.input = "TimeExpired"
    /\ lib.fsm.state = "Closed"

\* the inputs the specification derives for a packet that flows from a peer
SendInputs(peer, packet) ==
    (IF ACK \in packet.flag /\ peer.received_special_packet.kind = "FIN"
           /\ packet.ack_seq = peer.received_special_packet.seq + 1
     THEN <<"SendAckForFin">>
     ELSE IF ACK \in packet.flag /\ peer.received_special_packet.kind = "SYN"
                /\ packet.ack_seq = peer.received_special_packet.seq + 1
     THEN <<"SendAckForSyn">>
     ELSE << >>)
    \o (IF {SYN, ACK} \subseteq packet.flag THEN <<"SendSynAck">>
        ELSE IF SYN \in packet.flag THEN <<"SendSyn">> ELSE << >>)
    \o (IF FIN \in packet.flag THEN <<"SendFin">> ELSE << >>)

\* the inputs one after the other, each along the listed transitions
RECURSIVE Consumed(_, _)
Consumed(state, inputs) ==
    IF inputs = << >> THEN state
    ELSE Consumed(IF \E t \in ListedTransitions : t[1] = state /\ t[2] = Head(inputs)
                  THEN (CHOOSE t \in ListedTransitions :
                            t[1] = state /\ t[2] = Head(inputs))[3]
                  ELSE state,
                  Tail(inputs))

\* the peers of the flow a packet flows from, by the field that holds them
SendingPeers(msg) == {f \in {"client", "server"} : lib.tcp.conn[f].e = msg.from}

ReceivingPeers(msg) == {f \in {"client", "server"} : lib.tcp.conn[f].e # msg.from}

\* C24: for a packet that flows from a peer the inputs are SendAckForFin or
\* SendAckForSyn (an ACK that matches the received FIN or SYN), then
\* SendSynAck or SendSyn, then SendFin; they are consumed in that order from
\* the state and the memory of before the packet, and afterwards SentSpecial
\* is FIN(seq) for a FIN, else SYN(seq) for a SYN, else what it was.
C24_SendDerivation ==
    [][\A msg \in TcpMsgs : TcpHandleMessage(msg, << >>) =>
          \A f \in SendingPeers(msg) :
              LET peer == lib.tcp.conn[f]
                  after == lib'.tcp.conn[f]
                  inputs == SendInputs(peer, msg.packet)
              IN  /\ Consumed(peer.fsm, inputs) # "TimeWait" =>
                        after.fsm = Consumed(peer.fsm, inputs)
                  /\ after.sent_special_packet =
                        IF FIN \in msg.packet.flag THEN SpecialPacket("FIN", msg.packet.seq)
                        ELSE IF SYN \in msg.packet.flag
                        THEN SpecialPacket("SYN", msg.packet.seq)
                        ELSE peer.sent_special_packet
                  /\ after.received_special_packet = peer.received_special_packet]_vars

\* a peer in CloseWait has sent FIN+ACK with the ACK matching the FIN it
\* received: SendAckForFin is not accepted, SendFin takes it to LastAck, and
\* its FIN is remembered
C24_AckedFinThenFin ==
    \E f \in {"client", "server"} :
        /\ lib.tcp.conn[f].fsm = "LastAck"
        /\ lib.tcp.conn[f].received_special_packet.kind = "FIN"
        /\ lib.tcp.conn[f].sent_special_packet.kind = "FIN"

\* the mirror image of SendInputs: SentSpecial for ReceivedSpecial, and the
\* inputs of receiving for those of sending
MirrorInputs(peer, packet) ==
    (IF ACK \in packet.flag /\ peer.sent_special_packet.kind = "FIN"
           /\ packet.ack_seq = peer.sent_special_packet.seq + 1
     THEN <<"RecvAckForFin">>
     ELSE IF ACK \in packet.flag /\ peer.sent_special_packet.kind = "SYN"
                /\ packet.ack_seq = peer.sent_special_packet.seq + 1
     THEN <<"RecvAckForSyn">>
     ELSE << >>)
    \o (IF {SYN, ACK} \subseteq packet.flag THEN <<"ReceiveSynAck">>
        ELSE IF SYN \in packet.flag THEN <<"ReceiveSyn">> ELSE << >>)
    \o (IF FIN \in packet.flag THEN <<"ReceiveFin">> ELSE << >>)

\* the derivation with its two departures from the mirror image: an ACK that
\* matches the sent SYN yields ReceiveSynAck when the packet has SYN, and
\* ReceiveFin comes before ReceiveSyn, which every SYN yields
ReceiveInputs(peer, packet) ==
    (IF ACK \in packet.flag /\ peer.sent_special_packet.kind = "FIN"
           /\ packet.ack_seq = peer.sent_special_packet.seq + 1
     THEN <<"RecvAckForFin">>
     ELSE IF ACK \in packet.flag /\ peer.sent_special_packet.kind = "SYN"
                /\ packet.ack_seq = peer.sent_special_packet.seq + 1
     THEN IF SYN \in packet.flag THEN <<"ReceiveSynAck">> ELSE <<"RecvAckForSyn">>
     ELSE << >>)
    \o (IF FIN \in packet.flag THEN <<"ReceiveFin">> ELSE << >>)
    \o (IF SYN \in packet.flag THEN <<"ReceiveSyn">> ELSE << >>)

\* C25 as stated: for a packet that flows to a peer the inputs are the exact
\* mirror image of those for a packet that flows from it, in the same order.
C25_MirrorImage ==
    [][\A msg \in TcpMsgs : TcpHandleMessage(msg, << >>) =>
          \A f \in ReceivingPeers(msg) :
              LET peer == lib.tcp.conn[f]
                  inputs == MirrorInputs(peer, msg.packet)
              IN  Consumed(peer.fsm, inputs) # "TimeWait" =>
                      lib'.tcp.conn[f].fsm = Consumed(peer.fsm, inputs)]_vars

\* C25: for a packet that flows to a peer the inputs are RecvAckForFin (an
\* ACK that matches the sent FIN), or for an ACK that matches the sent SYN
\* ReceiveSynAck when the packet has SYN and RecvAckForSyn when not; then
\* ReceiveFin for a FIN; then ReceiveSyn for a SYN, with or without ACK; they
\* are consumed in that order, and afterwards ReceivedSpecial is updated.
C25_ReceiveDerivation ==
    [][\A msg \in TcpMsgs : TcpHandleMessage(msg, << >>) =>
          \A f \in ReceivingPeers(msg) :
              LET peer == lib.tcp.conn[f]
                  after == lib'.tcp.conn[f]
                  inputs == ReceiveInputs(peer, msg.packet)
              IN  /\ Consumed(peer.fsm, inputs) # "TimeWait" =>
                        after.fsm = Consumed(peer.fsm, inputs)
                  /\ after.received_special_packet =
                        IF FIN \in msg.packet.flag THEN SpecialPacket("FIN", msg.packet.seq)
                        ELSE IF SYN \in msg.packet.flag
                        THEN SpecialPacket("SYN", msg.packet.seq)
                        ELSE peer.received_special_packet
                  /\ after.sent_special_packet = peer.sent_special_packet]_vars

\* a peer has sent a SYN and received a SYN, and took the SYN it received
\* for a SYN alone or for the answer to its own
C25_SynReceivedInSynSent ==
    \E f \in {"client", "server"} :
        /\ lib.tcp.conn[f].fsm \in {"SynSentReceiveSyn", "ReceiveSynAckReceiveSynAck"}
        /\ lib.tcp.conn[f].received_special_packet.kind = "SYN"
        /\ lib.tcp.conn[f].sent_special_packet.kind = "SYN"

\* C26: a flow's state machine whose server peer starts in Listen and that
\* is fed the packets of a connection in order emits no Close before the
\* last ACK is handled, and with the last ACK handled both peers are Closed
\* and exactly one Close has been emitted.
C26_OneCloseAfterLastAck ==
    lib.tcp.conn.pc = "recv" =>
        /\ lib.tcp.script # << >> => lib.tcp.closes = << >>
        /\ lib.tcp.script = << >> =>
              /\ is_closed(lib.tcp.conn.client)
              /\ is_closed(lib.tcp.conn.server)
              /\ Len(lib.tcp.closes) = 1

\* C27: a peer that a packet takes into TimeWait is in TimeWait when the
\* handling of that packet ends: TimeExpired is not consumed in the step that
\* entered TimeWait.
C27_TimeWaitHeld ==
    [][\A f \in {"client", "server"} :
          lib.tcp.conn[f].fsm \in {"FinWait2ReceiveFin", "Closing"} =>
              lib'.tcp.conn[f].fsm # "Closed"]_vars

(***************************************************************************)
(* The door bell, the order of a cold start, and the mutexes of the        *)
(* control tier.                                                           *)
(***************************************************************************)
\* the door bell of the endpoint k is 1
Armed(k) == Has(DOOR_BELL_MAP, k) /\ DOOR_BELL_MAP[k] = 1

\* C28: a forwarded packet with declared tuple d and output tuple o sets the
\* Performance Table entry of d.to to 1 if the door bell of d.to is 1, else
\* that of o.from if the door bell of o.from is 1, and writes no other entry
\* of the Performance Table.
C28_DoorbellTick ==
    [][\A c \in CPUs :
          (cpu[c].pc = "output" /\ cpu'[c].pc = "ret" /\ cpu'[c].ret = XDP_TX) =>
              LET d == extract_way(cpu[c].frame)
                  o == CONNECTION[d]
              IN  PERFORMANCE_MAP' =
                      IF Armed(d.to) THEN Put(PERFORMANCE_MAP, d.to, 1)
                      ELSE IF Armed(o.from) THEN Put(PERFORMANCE_MAP, o.from, 1)
                      ELSE PERFORMANCE_MAP]_vars

\* a packet of the backend was forwarded while the door bell of the virtual
\* service, its output tuple's source, was 1, and the service has its tick
C28_TickByOutputSource ==
    \E c \in CPUs :
        /\ cpu[c].pc = "ret"
        /\ cpu[c].ret = XDP_TX
        /\ extract_way(cpu[c].frame).from = to_k_endpoint(VSERVICE)
        /\ Armed(to_k_endpoint(VSERVICE))
        /\ Has(PERFORMANCE_MAP, to_k_endpoint(VSERVICE))
        /\ PERFORMANCE_MAP[to_k_endpoint(VSERVICE)] = 1

\* C29: when the worker of a cold-started endpoint is registered its
\* Backend Table entry has been written, and the datapath creates a flow
\* against the backend of an endpoint only when the worker of that endpoint
\* is registered.
C29_ColdStartOrder ==
    [][/\ \A s \in SessionIds :
             (sessions[s].pc = "register" /\ sessions'[s].pc = "arm") =>
                 Has(SERVER_MAP, to_k_endpoint(sessions[s].e))
       /\ \A c \in CPUs :
             (cpu[c].pc = "insert" /\ CONNECTION' # CONNECTION) =>
                 Has(tcp_service_map, EndpointNew(extract_way(cpu[c].frame).to))]_vars

\* C30: no task of the control tier holds a mutex while it waits for a send
\* on a bounded channel: not packet_handle the mutex of the service map, not
\* handle_packet_msg the mutex of the ConnectionStateMgr, and not the task of
\* a flow the mutex of its own handler.
C30_NoMutexAcrossAwait ==
    /\ ~TcpServiceMapLocked
    /\ \A w \in WorkerIds :
          workers[w].used =>
              /\ ~HandlerLockedBySend(workers[w])
              /\ \A i \in FsmIds : workers[w].fsm[i].pc # "send_close"

(***************************************************************************)
(* The rewrite of forwarded frames.                                        *)
(***************************************************************************)
\* C31: the frame transmitted on an output tuple o has, as its Ethernet
\* source, the destination address of the frame as received, and as its
\* Ethernet destination the IP-to-MAC entry of o.to.ip when there is one and
\* the source address of the frame as received otherwise.
C31_MacsFromReceivedFrame ==
    [][\A ip \in EthIps : EthRewrite(ip) =>
          /\ lib'.eth.src_addr = lib.eth.rx.dst_addr
          /\ lib'.eth.dst_addr =
                IF Has(lib.eth.IP_MAC_MAP, ip)
                THEN CHOOSE a \in Macs : MacNew(a) = lib.eth.IP_MAC_MAP[ip]
                ELSE lib.eth.rx.src_addr]_vars

\* a frame was transmitted on an output tuple whose to.ip has no entry, with
\* the source address it arrived with as its destination
C31_FallbackToReceivedSource ==
    /\ lib.eth.pc = "tx"
    /\ ~Has(lib.eth.IP_MAC_MAP, lib.eth.to_ip)
    /\ lib.eth.dst_addr = lib.eth.rx.src_addr
    /\ lib.eth.src_addr = lib.eth.rx.dst_addr

\* C32: a frame whose IPv4 header checksum and L4 checksum verify before the
\* rewrite of the two addresses and of the pair of ports has both verify
\* after it, with the fields of the output tuple in place; and every sum
\* handed to csum_fold_helper is, after the five steps and before the
\* complement, a 16-bit value congruent to it modulo 2^16 - 1.
C32_ChecksumsVerifyAfterRewrite ==
    lib.csum.pc = "tx" =>
        /\ lib.csum.tx.dst_addr = lib.csum.way.to.ip
        /\ lib.csum.tx.src_addr = lib.csum.way.from.ip
        /\ lib.csum.tx.source = lib.csum.way.from.port
        /\ lib.csum.tx.dest = lib.csum.way.to.port
        /\ IpVerifies(lib.csum.rx) => IpVerifies(lib.csum.tx)
        /\ L4Verifies(lib.csum.rx) => L4Verifies(lib.csum.tx)
        /\ Len(lib.csum.sums) = 5
        /\ \A i \in DOMAIN lib.csum.sums :
              LET sum == lib.csum.sums[i]
                  folded == lib.csum.folded[i]
              IN  /\ folded[2] = 0 /\ folded[3] = 0 /\ folded[4] = 0
                  /\ folded[1] % 65535 = (sum[1] + sum[2] + sum[3] + sum[4]) % 65535

\* a verified frame was rewritten, and one of its sums needed two steps of
\* the fold
C32_TwoFoldsNeeded ==
    /\ lib.csum.pc = "tx"
    /\ IpVerifies(lib.csum.rx) /\ L4Verifies(lib.csum.rx)
    /\ lib.csum.tx.src_addr # lib.csum.rx.src_addr
    /\ \E i \in DOMAIN lib.csum.sums :
          /\ lib.csum.sums[i][1] + lib.csum.sums[i][2] > 65535
          /\ lib.csum.folded[i][1] < lib.csum.sums[i][1]

(***************************************************************************)
(* Reclamation and the state machine of a flow.                            *)
(***************************************************************************)
\* a per-flow state machine none of whose peers has left the state it was
\* constructed in
Pristine(st) ==
    LET new == ConnectionStateNew(st.client.e, st.server.e, SERVER_IP_SET)
    IN  st.client = new.client /\ st.server = new.server

\* C33: a per-flow state machine none of whose peers has ever left its
\* initial state emits no Close(flow) for the packet it handles, the first
\* packet observed for the flow included, whether the backend's ip is in
\* the server-side set or not.
C33_NoCloseBeforeTerminalState ==
    [][\A w \in WorkerIds : \A i \in FsmIds :
          FsmHandle(w, i) /\ Pristine(workers[w].fsm[i]) =>
              /\ workers'[w].close_chan = workers[w].close_chan
              /\ workers'[w].fsm[i].pc # "send_close"]_vars

\* C34: a port popped from the pool is pushed back at most once, whatever
\* packet notifications and Close messages are processed for its flow (a
\* notification processed after the flow's Close was handled included): the
\* pool never holds a port twice, and the Close handler never comes to
\* delete a Flow Table entry that is already gone.
C34_PortPushedBackOnce ==
    /\ \A i, j \in DOMAIN SERVICE_PORTS :
          SERVICE_PORTS[i] = SERVICE_PORTS[j] => i = j
    /\ \A w \in WorkerIds :
          /\ workers[w].csm.pc = "remove0" => Has(CONNECTION, workers[w].csm.u_conns[1])
          /\ workers[w].csm.pc = "remove1" => Has(CONNECTION, workers[w].csm.u_conns[2])

\* C35: a run that popped a port and ends without the forward and the
\* return entry both installed (no local ip for the ingress interface, the
\* forward insert failed, the return insert failed) leaves the Service-Port
\* Pool as it was before the run: the step that ends the run leaves the pool
\* as the pop found it, or has the popped port back in the pool.
C35_FailedCreationKeepsPool ==
    [][\A c \in CPUs :
          (cpu[c].pc \in {"pop", "insert", "insert_return"} /\ cpu'[c].pc = "ret") =>
              IF cpu[c].pc = "pop"
              THEN SERVICE_PORTS' = SERVICE_PORTS
              ELSE \E i \in DOMAIN SERVICE_PORTS' :
                      SERVICE_PORTS'[i] = ToBe16(cpu[c].from.port)]_vars

\* C36: when CPUs have run the datapath concurrently on packets with the
\* same declared tuple that had no Flow Table entry, one port was taken from
\* the pool for the tuple and the table holds one forward and return pair for
\* it: the port a finished run took from the pool is the port of the forward
\* entry of its tuple (no return entry is left for a second port, and the
\* forward entry and the return entry name the same port).
C36_ConcurrentCreationOnePair ==
    (\A c \in CPUs : cpu[c].pc \in {"idle", "ret"}) =>
        \A c \in CPUs :
            LET out_way == KConnectionNew(cpu[c].from, cpu[c].to)
            IN  (cpu[c].pc = "ret" /\ cpu[c].ret = XDP_TX /\ cpu[c].from # NoEndpoint) =>
                    /\ Has(CONNECTION, reverse(out_way))
                    /\ Has(CONNECTION, reverse(CONNECTION[reverse(out_way)]))
                    /\ CONNECTION[reverse(CONNECTION[reverse(out_way)])] = out_way

(***************************************************************************)
(* The tasks of the control tier and their mutexes and channels.           *)
(***************************************************************************)
\* the per-service task holds the connection-manager mutex and waits to send
\* into the full channel of flow i
SendBlocked(w, i) ==
    /\ workers[w].svc.pc = "sec1_send"
    /\ workers[w].state_map[MsgKey(workers[w].svc.msg)] = i
    /\ Len(workers[w].fsm[i].chan) >= CHANNEL_SIZE

\* the task of flow i waits to send Close into the full close channel
CloseBlocked(w, i) ==
    /\ workers[w].fsm[i].pc = "send_close"
    /\ ~CloseReceiverGone(workers[w])
    /\ Len(workers[w].close_chan) >= CHANNEL_SIZE

\* the Close handler has taken a Close and waits for the connection-manager
\* mutex
HandlerBlocked(w) ==
    /\ workers[w].csm.pc = "close"
    /\ HandlerLockedBySend(workers[w])

\* C37: the per-service task that sends into the channel of a flow under the
\* connection-manager mutex, the task of the flow that sends Close, and the
\* Close handler that needs the connection-manager mutex are never all
\* three blocked waiting on each other.
C37_NoDeadlock ==
    \A w \in WorkerIds : \A i \in FsmIds :
        ~(workers[w].used /\ SendBlocked(w, i) /\ CloseBlocked(w, i) /\ HandlerBlocked(w))

(***************************************************************************)
(* The idle monitors of an endpoint.                                       *)
(***************************************************************************)
\* C38: at most one idle monitor is active per endpoint, and an idle monitor
\* that has decided to tear down finds the Backend Table entry and the
\* per-service worker of its endpoint still present: neither of its two
\* removals fails.
C38_OneMonitorTearsDown ==
    /\ \A s1, s2 \in SessionIds :
          (Monitoring(s1) /\ Monitoring(s2) /\ sessions[s1].e = sessions[s2].e) => s1 = s2
    /\ \A s \in SessionIds :
          /\ sessions[s].pc = "stop_server" => Has(SERVER_MAP, SessionKey(s))
          /\ sessions[s].pc = "stop_worker" => Has(tcp_service_map, sessions[s].e)

(***************************************************************************)
(* Sequence numbers at the end of their range.                             *)
(***************************************************************************)
\* s + 1 modulo 2^32, on the pair of the 16-bit halves of s
Succ32(s) ==
    <<(s[1] + 1) % 65536, (s[2] + ((s[1] + 1) \div 65536)) % 65536>>

\* C39: the match of an ACK with a remembered SYN(s) or FIN(s) compares
\* ack_seq with s + 1 modulo 2^32 and never fails: the check always
\* completes, and it matches exactly when ack_seq is s + 1 modulo 2^32 (for
\* s = 2^32 - 1, when ack_seq is 0).
C39_AckMatchesModulo32 ==
    lib.ack.pc \notin {"idle", "check"} =>
        /\ lib.ack.pc = "done"
        /\ lib.ack.matched <=> (lib.ack.ack_seq = Succ32(lib.ack.seq))

(***************************************************************************)
(* Packets that trail a reclaimed flow.                                    *)
(***************************************************************************)
\* the flow of the one client connection was reclaimed: every port is in the
\* pool, but not in the order of the start (a port was popped and pushed
\* back), no entry is in the Flow Table and no Close is being handled
FlowReclaimed ==
    /\ CONNECTION = EmptyMap
    /\ PooledPorts = ServicePorts
    /\ Len(SERVICE_PORTS) = PORTS_QUEUE_SIZE
    /\ SERVICE_PORTS # InitialPorts
    /\ \A w \in WorkerIds : workers[w].csm.pc \in {"recv", "panicked"}

\* C40: after the flow of a connection was reclaimed (Close handled, port
\* returned, both entries deleted), a trailing packet of the connection (a
\* retransmitted FIN, the final ACK of the client) takes no port from the
\* pool and creates no Flow Table entry.
C40_TrailingPacketAllocatesNothing ==
    [][\A c \in CPUs :
          (/\ FlowReclaimed
           /\ cpu[c].frame \in {ClientAck, ClientFin}
           /\ cpu[c].pc \in {"server_map", "pop"}
           /\ cpu'[c] # cpu[c]) =>
              /\ SERVICE_PORTS' = SERVICE_PORTS
              /\ CONNECTION' = CONNECTION
              /\ cpu'[c].pc \notin {"insert", "insert_return"}]_vars

====
